---- MODULE Spec2Model ----
(***************************************************************************)
(* Model of evanj/combinestacks: the forked panicparse dump parser         *)
(* (ParseDump / parseDump / scanningState.scan) and the line parser of     *)
(* combinestacks.go (parse).                                               *)
(*                                                                         *)
(* Text is modelled as a sequence of tokens: a Go string or []byte is a    *)
(* Seq of TLA+ strings whose concatenation is the text.  A line of input   *)
(* is a record: its leading whitespace (ws), an optional run of foreign    *)
(* text before the trace syntax (lead), the syntax it carries (kind and    *)
(* the fields of that kind) and its line terminator (eol).  The regular    *)
(* expressions of the source are operators over these records.             *)
(***************************************************************************)
EXTENDS Integers, Sequences, FiniteSets, TLC

\* -------------------------------------------------------------------------
\* Bounds of the model
\* -------------------------------------------------------------------------

\* segments (junk lines and routine blocks) of a dump with given contents
MaxSegments == 3

\* (call line, file line) pairs of a block given to parse of combinestacks.go
MaxFrames == 2

\* pieces of the argument list of a given call line
MaxArgs == 3

\* what the parser holds when its reader delivers indented lines, counted
\* as for MaxSize
MaxIndentSize == 6

\* Under an arbitrary reader the input is cut where the parser would hold
\* more than MaxSize items: the goroutines of the list and the Calls of
\* their stacks and creator chains count one each, a chunk of the sink two.
MaxSize == 5

\* -------------------------------------------------------------------------
\* Bytes and lines
\* -------------------------------------------------------------------------

LF == "\n"
CRLF == "\r\n"
NoEOL == ""

SP == " "
TAB == "\t"

\* Is p a prefix of s (bytes.HasPrefix on token sequences)
HasPrefix(s, p) ==
    /\ Len(p) <= Len(s)
    /\ SubSeq(s, 1, Len(p)) = p

\* s without its first n tokens (s[n:])
Drop(s, n) == SubSeq(s, n + 1, Len(s))

\* A line of input.  Fields that a kind does not use hold their zero value.
Line(ws, lead, kind, id, items, name, args, path, num, tail, eol) ==
    [ws |-> ws, lead |-> lead, kind |-> kind, id |-> id, items |-> items,
     name |-> name, args |-> args, path |-> path, num |-> num, tail |-> tail,
     eol |-> eol]

\* "goroutine <id> [<items>]:"
HeaderLine(ws, id, items, eol) ==
    Line(ws, "", "header", id, items, "", <<>>, "", <<>>, "", eol)
\* "<name>(<args>)"
CallLine(ws, name, args, eol) ==
    Line(ws, "", "call", <<>>, <<>>, name, args, "", <<>>, "", eol)
\* "<path>:<num><tail>"
FileLine(ws, path, num, tail, eol) ==
    Line(ws, "", "file", <<>>, <<>>, "", <<>>, path, num, tail, eol)
\* "created by <name>"
CreatedLine(ws, name, eol) ==
    Line(ws, "", "created", <<>>, <<>>, name, <<>>, "", <<>>, "", eol)
\* "goroutine running on other thread; stack unavailable"
UnavailLine(ws, eol) ==
    Line(ws, "", "unavail", <<>>, <<>>, "", <<>>, "", <<>>, "", eol)
\* "...additional frames elided..."
ElidedLine(ws, eol) ==
    Line(ws, "", "elided", <<>>, <<>>, "", <<>>, "", <<>>, "", eol)
\* a line holding nothing after its whitespace
BlankLine(ws, eol) ==
    Line(ws, "", "blank", <<>>, <<>>, "", <<>>, "", <<>>, "", eol)
\* text that is no trace syntax, e.g. "panic: oops"
TextLine(ws, text, eol) ==
    Line(ws, "", "text", <<>>, <<>>, text, <<>>, "", <<>>, "", eol)
\* "=================="
BannerLine(ws, eol) ==
    Line(ws, "", "banner", <<>>, <<>>, "", <<>>, "", <<>>, "", eol)
\* "WARNING: DATA RACE"
WarningLine(ws, eol) ==
    Line(ws, "", "warning", <<>>, <<>>, "", <<>>, "", <<>>, "", eol)
\* "(Read|Write) at <addr> by goroutine <id>:"   (name holds Read or Write)
RaceOpLine(ws, op, addr, id, eol) ==
    Line(ws, "", "raceop", id, <<>>, op, <<>>, "", addr, "", eol)
\* "Previous (read|write) at <addr> by goroutine <id>:"
RacePrevLine(ws, op, addr, id, eol) ==
    Line(ws, "", "raceprev", id, <<>>, op, <<>>, "", addr, "", eol)
\* "Goroutine <id> (running|finished) created at:"
RaceGoroutineLine(ws, id, st, eol) ==
    Line(ws, "", "racegoroutine", id, <<>>, st, <<>>, "", <<>>, "", eol)
\* a full read buffer of a line longer than the buffer: no newline in it
LongFragment ==
    Line(<<>>, "", "long", <<>>, <<>>, "", <<>>, "", <<>>, "", NoEOL)

\* the empty slice ReadSlice returns at end of stream
EmptySlice == BlankLine(<<>>, NoEOL)

\* -------------------------------------------------------------------------
\* Numbers
\* -------------------------------------------------------------------------

\* width of int on the platform (strconv.IntSize)
IntSize == 64

\* atou: a run of decimal digits to an int; fails on an empty or overlong run
\* and on a byte that is no digit.  The result is [ok, n].
RECURSIVE atouLoop(_, _, _)
atouLoop(ds, i, n) ==
    IF i > Len(ds) THEN [ok |-> TRUE, n |-> n]
    ELSE IF ds[i] > 9 THEN [ok |-> FALSE, n |-> 0]
    ELSE atouLoop(ds, i + 1, n * 10 + ds[i])

atou(ds) ==
    IF \/ IntSize = 32 /\ 0 < Len(ds) /\ Len(ds) < 10
       \/ IntSize = 64 /\ 0 < Len(ds) /\ Len(ds) < 19
    THEN atouLoop(ds, 1, 0)
    ELSE [ok |-> FALSE, n |-> 0]

\* A uint64 is held as its hexadecimal numeral without leading zeros (the
\* empty numeral is 0), which keeps values of 64 bits exact.
RECURSIVE StripZeros(_)
StripZeros(ds) ==
    IF ds # <<>> /\ Head(ds) = 0 THEN StripZeros(Tail(ds)) ELSE ds

\* a < b on numerals
NumLess(a, b) ==
    \/ Len(a) < Len(b)
    \/ /\ Len(a) = Len(b)
       /\ \E i \in 1..Len(a) :
            /\ a[i] < b[i]
            /\ \A j \in 1..(i - 1) : a[j] = b[j]

\* bitSize of the ParseUint calls
bitSize == 64

\* strconv.ParseUint(text, 0, 64) on the pieces the model knows: a "hex"
\* piece is 0x followed by the digits ds; anything else is no number.
ParseUint(piece) ==
    IF piece.t = "hex" /\ piece.ds # <<>>
          /\ (\A i \in 1..Len(piece.ds) : piece.ds[i] \in 0..15)
          /\ Len(StripZeros(piece.ds)) * 4 <= bitSize
    THEN [ok |-> TRUE, v |-> StripZeros(piece.ds)]
    ELSE [ok |-> FALSE, v |-> <<>>]

\* pieces of an argument list, as bytes.Split(match[2], ", ") yields them
HexPiece(ds) == [t |-> "hex", ds |-> ds]
DotsPiece == [t |-> "dots", ds |-> <<>>]
EmptyPiece == [t |-> "empty", ds |-> <<>>]
WordPiece == [t |-> "word", ds |-> <<>>]

\* the band of values taken for pointers: 4 MiB < v < 2^63 - 1
pointerFloor == <<4, 0, 0, 0, 0, 0>>
pointerCeiling == <<7, 15, 15, 15, 15, 15, 15, 15, 15, 15, 15, 15, 15, 15, 15, 15>>

\* -------------------------------------------------------------------------
\* Frame model
\* -------------------------------------------------------------------------

\* items of a routine header's bracket: a word, or "<digits> minutes"
WordItem(w) == [w |-> w, mins |-> <<>>]
MinutesItem(ds) == [w |-> "minutes", mins |-> ds]
lockedToThread == WordItem("locked to thread")

NoArgs == [Values |-> <<>>, Elided |-> FALSE]

\* Call{}
ZeroCall == [Func |-> <<>>, Args |-> NoArgs, SrcPath |-> <<>>, Line |-> 0]

\* Func.Init(raw): keeps the raw function token; it reports no error
FuncInit(c, raw) == [c EXCEPT !.Func = raw]

\* Call.init(srcPath, line)
CallInit(c, srcPath, line) == [c EXCEPT !.SrcPath = srcPath, !.Line = line]

\* Goroutine{} built from a routine header
NewGoroutine(id, state, sleep, locked, first) ==
    [ID |-> id, First |-> first, State |-> state,
     SleepMin |-> sleep, SleepMax |-> sleep, Locked |-> locked,
     Stack |-> [Calls |-> <<>>, Elided |-> FALSE],
     CreatedBy |-> [Calls |-> <<>>],
     RaceWrite |-> FALSE, RaceAddr |-> <<>>]

\* Goroutine{} built from a race operation header
NewRaceGoroutine(id, first, w, addr) ==
    [NewGoroutine(id, WordItem(""), 0, FALSE, first) EXCEPT !.RaceWrite = w, !.RaceAddr = addr]



\* -------------------------------------------------------------------------
\* The line vocabulary (regular expressions of the scanner)
\*
\* Each operator takes the trimmed line t: the line without its terminator
\* and without the block's prefix.  The text of t is t.ws, t.lead and the
\* syntax of t.kind, in this order; t.lead and the syntax never start with
\* a blank.
\* -------------------------------------------------------------------------

\* len(trimmed) == 0
IsEmpty(t) == t.ws = <<>> /\ t.lead = "" /\ t.kind = "blank"

\* reRoutineHeader: ^([ \t]*)goroutine (\d+) \[([^\]]+)\]\:$
MatchRoutineHeader(t) == t.lead = "" /\ t.kind = "header" /\ t.items # <<>>

\* number of bytes the group (?:\t| +) takes at the start of ws, 0 if none
RECURSIVE LeadingSpaces(_)
LeadingSpaces(ws) ==
    IF ws # <<>> /\ Head(ws) = SP THEN 1 + LeadingSpaces(Tail(ws)) ELSE 0

IndentLen(ws) ==
    IF ws = <<>> THEN 0
    ELSE IF Head(ws) = TAB THEN 1
    ELSE LeadingSpaces(ws)

\* reUnavail: ^(?:\t| +)goroutine running on other thread; stack unavailable
MatchUnavail(t) ==
    /\ t.lead = "" /\ t.kind = "unavail"
    /\ IndentLen(t.ws) > 0
    /\ IndentLen(t.ws) = Len(t.ws)

\* paths the alternatives \?\?, \<autogenerated\> and .+\.(?:c|go|s) accept
SourceSuffixPaths == {"/a/x.go", "/a/y.go", "/a/asm.s", "/a/cgo.c"}
ExactPaths == {"??", "<autogenerated>"}

\* tails reFile accepts after the line number: nothing, an offset, the
\* fp= sp= annotations, an optional pc=
FileTails == {"", " +0x76", " fp=0x1 sp=0x2", " +0x76 fp=0x1 sp=0x2 pc=0x3"}

\* what else may follow the line number: text that starts like an offset, and
\* text that starts like none of the annotations
LooseTails == {" +junk"}
NoiseTails == {" in goroutine 5"}

\* reFile: ^(?:\t| +)(\?\?|\<autogenerated\>|.+\.(?:c|go|s))\:(\d+)
\*         (?:| \+0x[0-9a-f]+)(?:| fp=0x[0-9a-f]+ sp=0x[0-9a-f]+(?:| pc=0x[0-9a-f]+))$
\* What is left of ws after the indent, and lead, fall in the path group.
MatchFile(t) ==
    /\ t.kind = "file"
    /\ IndentLen(t.ws) > 0
    /\ t.tail \in FileTails
    /\ \/ t.path \in SourceSuffixPaths
       \/ t.path \in ExactPaths /\ IndentLen(t.ws) = Len(t.ws) /\ t.lead = ""

\* reFile with the indentation inside its path group
FilePath_WithIndent(t) ==
    t.ws \o (IF t.lead = "" THEN <<>> ELSE <<t.lead>>) \o <<t.path>>

\* match[1] of reFile
FilePath(t) ==
    Drop(t.ws, IndentLen(t.ws))
        \o (IF t.lead = "" THEN <<>> ELSE <<t.lead>>) \o <<t.path>>

\* reCreated: ^created by (.+)$
MatchCreated(t) == t.ws = <<>> /\ t.lead = "" /\ t.kind = "created"

\* reFunc: ^(.+)\((.*)\)$
MatchFunc(t) == t.kind = "call"

\* match[1] of reFunc: everything before the parenthesis
FuncName(t) ==
    t.ws \o (IF t.lead = "" THEN <<>> ELSE <<t.lead>>) \o <<t.name>>

\* bytes.Equal(trimmed, framesElided)
IsFramesElided(t) == t.ws = <<>> /\ t.lead = "" /\ t.kind = "elided"

\* bytes.Equal(trimmed, raceHeaderFooter)
IsRaceHeaderFooter(t) == t.ws = <<>> /\ t.lead = "" /\ t.kind = "banner"

\* bytes.Equal(trimmed, raceHeader)
IsRaceHeader(t) == t.ws = <<>> /\ t.lead = "" /\ t.kind = "warning"

\* reRaceOperationHeader: ^(Read|Write) at (0x[0-9a-f]+) by goroutine (\d+):$
MatchRaceOperationHeader(t) ==
    t.ws = <<>> /\ t.lead = "" /\ t.kind = "raceop" /\ t.name \in {"Read", "Write"}

\* reRacePreviousOperationHeader:
\*   ^Previous (read|write) at (0x[0-9a-f]+) by goroutine (\d+):$
MatchRacePreviousOperationHeader(t) ==
    t.ws = <<>> /\ t.lead = "" /\ t.kind = "raceprev" /\ t.name \in {"read", "write"}

\* reRaceGoroutine: ^Goroutine (\d+) \((running|finished)\) created at:$
MatchRaceGoroutine(t) ==
    /\ t.ws = <<>> /\ t.lead = "" /\ t.kind = "racegoroutine"
    /\ t.name \in {"running", "finished"}

\* trimLeftSpace
trimLeftSpace(t) == [t EXCEPT !.ws = <<>>]

\* -------------------------------------------------------------------------
\* parseFunc and parseFile
\* -------------------------------------------------------------------------

\* the loop of parseFunc marking the arguments elided at an empty piece
RECURSIVE parseArgs_ElidedOnEmpty(_, _, _, _)
parseArgs_ElidedOnEmpty(pieces, i, args, t) ==
    IF i > Len(pieces) THEN [args |-> args, err |-> ""]
    ELSE IF pieces[i].t = "dots"
         THEN parseArgs_ElidedOnEmpty(pieces, i + 1, [args EXCEPT !.Elided = TRUE], t)
    ELSE IF pieces[i].t = "empty"
         THEN [args |-> [args EXCEPT !.Elided = TRUE], err |-> ""]
    ELSE LET r == ParseUint(pieces[i])
         IN  IF ~r.ok THEN [args |-> args, err |-> "failed to parse int on line"]
             ELSE parseArgs_ElidedOnEmpty(pieces, i + 1,
                     [args EXCEPT !.Values = Append(@,
                         [Value |-> r.v,
                          IsPtr |-> NumLess(pointerFloor, r.v)
                                      /\ NumLess(r.v, pointerCeiling)])],
                     t)

\* the loop of parseFunc taking no value for a pointer
RECURSIVE parseArgs_NoPointers(_, _, _, _)
parseArgs_NoPointers(pieces, i, args, t) ==
    IF i > Len(pieces) THEN [args |-> args, err |-> ""]
    ELSE IF pieces[i].t = "dots"
         THEN parseArgs_NoPointers(pieces, i + 1, [args EXCEPT !.Elided = TRUE], t)
    ELSE IF pieces[i].t = "empty" THEN [args |-> args, err |-> ""]
    ELSE LET r == ParseUint(pieces[i])
         IN  IF ~r.ok THEN [args |-> args, err |-> "failed to parse int on line"]
             ELSE parseArgs_NoPointers(pieces, i + 1,
                     [args EXCEPT !.Values = Append(@,
                         [Value |-> r.v, IsPtr |-> FALSE])],
                     t)

\* the loop of parseFunc over the pieces of the argument list, from piece i,
\* with the arguments args built so far; the result is [args, err]
RECURSIVE parseArgs(_, _, _, _)
parseArgs(pieces, i, args, t) ==
    IF i > Len(pieces) THEN [args |-> args, err |-> ""]
    ELSE IF pieces[i].t = "dots"
         THEN parseArgs(pieces, i + 1, [args EXCEPT !.Elided = TRUE], t)
    ELSE IF pieces[i].t = "empty" THEN [args |-> args, err |-> ""]
    ELSE LET r == ParseUint(pieces[i])
         IN  IF ~r.ok THEN [args |-> args, err |-> "failed to parse int on line"]
             ELSE parseArgs(pieces, i + 1,
                     [args EXCEPT !.Values = Append(@,
                         [Value |-> r.v,
                          IsPtr |-> NumLess(pointerFloor, r.v)
                                      /\ NumLess(r.v, pointerCeiling)])],
                     t)

\* parseFunc(&c, line) on a zero Call: [found, err, c].  An argument list
\* without a piece, "()", splits into one empty piece.
parseFunc(t) ==
    IF MatchFunc(t)
    THEN LET c == FuncInit(ZeroCall, FuncName(t))
             pieces == IF t.args = <<>> THEN <<EmptyPiece>> ELSE t.args
             r == parseArgs(pieces, 1, c.Args, t)
         IN  [found |-> TRUE, err |-> r.err, c |-> [c EXCEPT !.Args = r.args]]
    ELSE [found |-> FALSE, err |-> "", c |-> ZeroCall]

\* parseFile(&c, line): [found, err, c]
parseFile(c, t) ==
    IF MatchFile(t)
    THEN LET num == atou(t.num)
         IN  IF ~num.ok
             THEN [found |-> TRUE, err |-> "failed to parse int on line", c |-> c]
             ELSE [found |-> TRUE, err |-> "", c |-> CallInit(c, FilePath(t), num.n)]
    ELSE [found |-> FALSE, err |-> "", c |-> c]

\* -------------------------------------------------------------------------
\* scanningState.scan
\* -------------------------------------------------------------------------

\* scanningState{}
ZeroScanningState ==
    [goroutines |-> <<>>, state |-> "normal", prefix |-> <<>>, goroutineIndex |-> 0]

\* what one call of scan yields: the scanner afterwards, the bytes returned
\* for the sink (at most one chunk), the error ("" is nil), and whether the
\* call panicked instead of returning
Ret(s, out, err) == [s |-> s, out |-> out, err |-> err, panicked |-> FALSE]
Panic(s) == [s |-> s, out |-> <<>>, err |-> "", panicked |-> TRUE]

\* the scanner with its first goroutine replaced by g
WithCur_First(s, g) == [s EXCEPT !.goroutines[1] = g]

\* *cur = g: cur points to the last goroutine of the list
WithCur(s, g) == [s EXCEPT !.goroutines[Len(s.goroutines)] = g]

\* the loop over items[1:] of a routine header: [sleep, locked]
RECURSIVE headerItems(_, _, _, _)
headerItems(items, i, sleep, locked) ==
    IF i > Len(items) THEN [sleep |-> sleep, locked |-> locked]
    ELSE IF items[i] = lockedToThread THEN headerItems(items, i + 1, sleep, TRUE)
    ELSE IF items[i].mins # <<>>
         THEN headerItems(items, i + 1, atou(items[i].mins).n, locked)
         ELSE headerItems(items, i + 1, sleep, locked)

\* case normal, betweenRoutine handing the banner to the sink
scanNormal_BannerWritten(s, line, t) ==
    IF MatchRoutineHeader(t) /\ atou(t.id).ok
    THEN LET it == headerItems(t.items, 2, 0, FALSE)
             g == NewGoroutine(atou(t.id).n, t.items[1], it.sleep, it.locked,
                               Len(s.goroutines) = 0)
         IN  Ret([s EXCEPT !.goroutines = Append(@, g),
                           !.state = "gotRoutineHeader",
                           !.prefix = t.ws],
                 <<>>, "")
    ELSE IF IsRaceHeaderFooter(t)
    THEN Ret([s EXCEPT !.state = "gotRaceHeader1"], <<line>>, "")
    ELSE Ret([s EXCEPT !.state = "normal", !.prefix = <<>>], <<line>>, "")

\* case normal, betweenRoutine
scanNormal(s, line, t) ==
    IF MatchRoutineHeader(t) /\ atou(t.id).ok
    THEN LET it == headerItems(t.items, 2, 0, FALSE)
             g == NewGoroutine(atou(t.id).n, t.items[1], it.sleep, it.locked,
                               Len(s.goroutines) = 0)
         IN  Ret([s EXCEPT !.goroutines = Append(@, g),
                           !.state = "gotRoutineHeader",
                           !.prefix = t.ws],
                 <<>>, "")
    ELSE IF IsRaceHeaderFooter(t)
    THEN Ret([s EXCEPT !.state = "gotRaceHeader1"], <<>>, "")
    ELSE Ret([s EXCEPT !.state = "normal", !.prefix = <<>>], <<line>>, "")

\* appends the Call that parseFunc found to cur.Stack.Calls
scanFuncInto(s, cur, pf, next) ==
    Ret([WithCur(s, [cur EXCEPT !.Stack.Calls = Append(@, pf.c)])
            EXCEPT !.state = next],
        <<>>, pf.err)

\* case gotRoutineHeader with an empty line taken for the end of the block
scanGotRoutineHeader_BlankEnds(s, cur, line, t) ==
    IF MatchUnavail(t)
    THEN Ret([WithCur(s, [cur EXCEPT !.Stack.Calls =
                            <<[ZeroCall EXCEPT !.SrcPath = <<"<unavailable>">>]>>])
                EXCEPT !.state = "gotUnavail"],
             <<>>, "")
    ELSE IF parseFunc(t).found
    THEN scanFuncInto(s, cur, parseFunc(t), "gotFunc")
    ELSE IF IsEmpty(t)
    THEN Ret([s EXCEPT !.state = "betweenRoutine"], <<>>, "")
    ELSE Ret(s, <<>>, "expected a function after a goroutine header")

\* case gotRoutineHeader
scanGotRoutineHeader(s, cur, line, t) ==
    IF MatchUnavail(t)
    THEN Ret([WithCur(s, [cur EXCEPT !.Stack.Calls =
                            <<[ZeroCall EXCEPT !.SrcPath = <<"<unavailable>">>]>>])
                EXCEPT !.state = "gotUnavail"],
             <<>>, "")
    ELSE IF parseFunc(t).found
    THEN scanFuncInto(s, cur, parseFunc(t), "gotFunc")
    ELSE Ret(s, <<>>, "expected a function after a goroutine header")

\* case gotFunc taking a call line as well
scanGotFunc_CallToo(s, cur, line, t) ==
    IF cur.Stack.Calls = <<>> THEN Panic(s)
    ELSE LET n == Len(cur.Stack.Calls)
             pf == parseFile(cur.Stack.Calls[n], t)
         IN  IF pf.err # "" THEN Ret(s, <<>>, pf.err)
             ELSE IF ~pf.found /\ parseFunc(t).found
             THEN scanFuncInto(s, cur, parseFunc(t), "gotFunc")
             ELSE IF ~pf.found
             THEN Ret(s, <<>>, "expected a file after a function")
             ELSE Ret([WithCur(s, [cur EXCEPT !.Stack.Calls[n] = pf.c])
                          EXCEPT !.state = "gotFileFunc"],
                      <<>>, "")

\* case gotFunc
scanGotFunc(s, cur, line, t) ==
    IF cur.Stack.Calls = <<>> THEN Panic(s)
    ELSE LET n == Len(cur.Stack.Calls)
             pf == parseFile(cur.Stack.Calls[n], t)
         IN  IF pf.err # "" THEN Ret(s, <<>>, pf.err)
             ELSE IF ~pf.found
             THEN Ret(s, <<>>, "expected a file after a function")
             ELSE Ret([WithCur(s, [cur EXCEPT !.Stack.Calls[n] = pf.c])
                          EXCEPT !.state = "gotFileFunc"],
                      <<>>, "")

\* case gotCreated
scanGotCreated(s, cur, line, t) ==
    IF cur.CreatedBy.Calls = <<>> THEN Panic(s)
    ELSE LET pf == parseFile(cur.CreatedBy.Calls[1], t)
         IN  IF pf.err # "" THEN Ret(s, <<>>, pf.err)
             ELSE IF ~pf.found
             THEN Ret(s, <<>>, "expected a file after a created line")
             ELSE Ret([WithCur(s, [cur EXCEPT !.CreatedBy.Calls[1] = pf.c])
                          EXCEPT !.state = "gotFileCreated"],
                      <<>>, "")

\* a created-by line that leaves cur.CreatedBy.Calls as it is
scanCreatedBy_NoCall(s, cur, t) ==
    Ret([s EXCEPT !.state = "gotCreated"], <<>>, "")

\* a created-by line: cur.CreatedBy.Calls becomes one Call holding the function
scanCreatedBy(s, cur, t) ==
    Ret([WithCur(s, [cur EXCEPT !.CreatedBy.Calls =
                        <<FuncInit(ZeroCall, <<t.name>>)>>])
            EXCEPT !.state = "gotCreated"],
        <<>>, "")

\* case gotFileFunc falling back to normal with the prefix kept
scanGotFileFunc_PrefixKept(s, cur, line, t) ==
    IF MatchCreated(t) THEN scanCreatedBy(s, cur, t)
    ELSE IF IsFramesElided(t)
    THEN Ret(WithCur(s, [cur EXCEPT !.Stack.Elided = TRUE]), <<>>, "")
    ELSE IF parseFunc(t).found
    THEN scanFuncInto(s, cur, parseFunc(t), "gotFunc")
    ELSE IF IsEmpty(t)
    THEN Ret([s EXCEPT !.state = "betweenRoutine"], <<>>, "")
    ELSE Ret([s EXCEPT !.state = "normal"], <<line>>, "")

\* case gotFileFunc starting a routine on a header line
scanGotFileFunc_HeaderStarts(s, cur, line, t) ==
    IF MatchCreated(t) THEN scanCreatedBy(s, cur, t)
    ELSE IF IsFramesElided(t)
    THEN Ret(WithCur(s, [cur EXCEPT !.Stack.Elided = TRUE]), <<>>, "")
    ELSE IF parseFunc(t).found
    THEN scanFuncInto(s, cur, parseFunc(t), "gotFunc")
    ELSE IF IsEmpty(t)
    THEN Ret([s EXCEPT !.state = "betweenRoutine"], <<>>, "")
    ELSE IF MatchRoutineHeader(t) THEN scanNormal(s, line, t)
    ELSE Ret([s EXCEPT !.state = "normal", !.prefix = <<>>], <<line>>, "")

\* case gotFileFunc
scanGotFileFunc(s, cur, line, t) ==
    IF MatchCreated(t) THEN scanCreatedBy(s, cur, t)
    ELSE IF IsFramesElided(t)
    THEN Ret(WithCur(s, [cur EXCEPT !.Stack.Elided = TRUE]), <<>>, "")
    ELSE IF parseFunc(t).found
    THEN scanFuncInto(s, cur, parseFunc(t), "gotFunc")
    ELSE IF IsEmpty(t)
    THEN Ret([s EXCEPT !.state = "betweenRoutine"], <<>>, "")
    ELSE Ret([s EXCEPT !.state = "normal", !.prefix = <<>>], <<line>>, "")

\* case gotFileCreated taking another created-by line
scanGotFileCreated_CreatedAgain(s, line, t) ==
    IF IsEmpty(t)
    THEN Ret([s EXCEPT !.state = "betweenRoutine"], <<>>, "")
    ELSE IF MatchCreated(t)
    THEN scanCreatedBy(s, s.goroutines[Len(s.goroutines)], t)
    ELSE Ret([s EXCEPT !.state = "normal", !.prefix = <<>>], <<line>>, "")

\* case gotFileCreated
scanGotFileCreated(s, line, t) ==
    IF IsEmpty(t)
    THEN Ret([s EXCEPT !.state = "betweenRoutine"], <<>>, "")
    ELSE Ret([s EXCEPT !.state = "normal", !.prefix = <<>>], <<line>>, "")

\* case gotUnavail without its created-by branch
scanGotUnavail_NoCreated(s, cur, line, t) ==
    IF IsEmpty(t)
    THEN Ret([s EXCEPT !.state = "betweenRoutine"], <<>>, "")
    ELSE Ret(s, <<>>, "expected empty line after unavailable stack")

\* case gotUnavail taking a call line as well
scanGotUnavail_CallToo(s, cur, line, t) ==
    IF IsEmpty(t)
    THEN Ret([s EXCEPT !.state = "betweenRoutine"], <<>>, "")
    ELSE IF MatchCreated(t) THEN scanCreatedBy(s, cur, t)
    ELSE IF parseFunc(t).found
    THEN scanFuncInto(s, cur, parseFunc(t), "gotFunc")
    ELSE Ret(s, <<>>, "expected empty line after unavailable stack")

\* case gotUnavail
scanGotUnavail(s, cur, line, t) ==
    IF IsEmpty(t)
    THEN Ret([s EXCEPT !.state = "betweenRoutine"], <<>>, "")
    ELSE IF MatchCreated(t) THEN scanCreatedBy(s, cur, t)
    ELSE Ret(s, <<>>, "expected empty line after unavailable stack")

\* case gotRaceHeader1 failing on a line that is no race header
scanGotRaceHeader1_Strict(s, line, t) ==
    IF IsRaceHeader(t)
    THEN Ret([s EXCEPT !.state = "gotRaceHeader2"], <<>>, "")
    ELSE Ret(s, <<>>, "expected a race header")

\* case gotRaceHeader1
scanGotRaceHeader1(s, line, t) ==
    IF IsRaceHeader(t)
    THEN Ret([s EXCEPT !.state = "gotRaceHeader2"], <<>>, "")
    ELSE Ret([s EXCEPT !.state = "normal"], <<line>>, "")

\* case gotRaceHeader2
scanGotRaceHeader2(s, line, t) ==
    IF MatchRaceOperationHeader(t)
    THEN LET w == t.name = "Write"
             addr == ParseUint(HexPiece(t.num))
             id == atou(t.id)
         IN  IF ~addr.ok THEN Ret(s, <<>>, "failed to parse address on line")
             ELSE IF ~id.ok THEN Ret(s, <<>>, "failed to parse goroutine id on line")
             ELSE IF s.goroutines # <<>> THEN Panic(s)
             ELSE Ret([s EXCEPT !.goroutines =
                                   <<NewRaceGoroutine(id.n, TRUE, w, addr.v)>>,
                                !.goroutineIndex = 1,
                                !.state = "gotRaceOperationHeader"],
                      <<>>, "")
    ELSE Ret([s EXCEPT !.state = "normal"], <<line>>, "")

\* case gotRaceOperationHeader
scanGotRaceOperationHeader(s, cur, line, t) ==
    IF parseFunc(trimLeftSpace(t)).found
    THEN scanFuncInto(s, cur, parseFunc(trimLeftSpace(t)), "gotRaceOperationFunc")
    ELSE Ret(s, <<>>, "expected a function after a race operation")

\* case gotRaceOperationFunc
scanGotRaceOperationFunc(s, cur, line, t) ==
    IF cur.Stack.Calls = <<>> THEN Panic(s)
    ELSE LET n == Len(cur.Stack.Calls)
             pf == parseFile(cur.Stack.Calls[n], t)
         IN  IF pf.err # "" THEN Ret(s, <<>>, pf.err)
             ELSE IF ~pf.found
             THEN Ret(s, <<>>, "expected a file after a race function")
             ELSE Ret([WithCur(s, [cur EXCEPT !.Stack.Calls[n] = pf.c])
                          EXCEPT !.state = "gotRaceOperationFile"],
                      <<>>, "")

\* case gotRaceOperationFile
scanGotRaceOperationFile(s, cur, line, t) ==
    IF IsEmpty(t)
    THEN Ret([s EXCEPT !.state = "betweenRaceOperations"], <<>>, "")
    ELSE IF parseFunc(trimLeftSpace(t)).found
    THEN scanFuncInto(s, cur, parseFunc(trimLeftSpace(t)), "gotRaceOperationFunc")
    ELSE Ret(s, <<>>, "expected an empty line after a race file")

\* index of the first goroutine with this ID, 0 if there is none
FindGoroutine(gs, id) ==
    IF \E i \in 1..Len(gs) : gs[i].ID = id
    THEN CHOOSE i \in 1..Len(gs) :
            /\ gs[i].ID = id
            /\ \A j \in 1..(i - 1) : gs[j].ID # id
    ELSE 0

\* case betweenRaceGoroutines
scanBetweenRaceGoroutines(s, line, t) ==
    IF MatchRaceGoroutine(t)
    THEN LET id == atou(t.id)
             i == FindGoroutine(s.goroutines, id.n)
         IN  IF ~id.ok THEN Ret(s, <<>>, "failed to parse goroutine id on line")
             ELSE IF i = 0
             THEN Ret(s, <<>>, "unexpected goroutine ID on line")
             ELSE Ret([s EXCEPT !.goroutines[i].State = WordItem(t.name),
                                !.goroutineIndex = i,
                                !.state = "gotRaceGoroutineHeader"],
                      <<>>, "")
    ELSE Ret(s, <<>>, "expected an operator or goroutine")

\* case betweenRaceOperations marking every routine as the first
scanBetweenRaceOperations_First(s, line, t) ==
    IF MatchRacePreviousOperationHeader(t)
    THEN LET w == t.name = "write"
             addr == ParseUint(HexPiece(t.num))
             id == atou(t.id)
         IN  IF ~addr.ok THEN Ret(s, <<>>, "failed to parse address on line")
             ELSE IF ~id.ok THEN Ret(s, <<>>, "failed to parse goroutine id on line")
             ELSE Ret([s EXCEPT !.goroutines =
                                   Append(@, NewRaceGoroutine(id.n, TRUE, w, addr.v)),
                                !.goroutineIndex = Len(s.goroutines) + 1,
                                !.state = "gotRaceOperationHeader"],
                      <<>>, "")
    ELSE scanBetweenRaceGoroutines(s, line, t)

\* case betweenRaceOperations
scanBetweenRaceOperations(s, line, t) ==
    IF MatchRacePreviousOperationHeader(t)
    THEN LET w == t.name = "write"
             addr == ParseUint(HexPiece(t.num))
             id == atou(t.id)
         IN  IF ~addr.ok THEN Ret(s, <<>>, "failed to parse address on line")
             ELSE IF ~id.ok THEN Ret(s, <<>>, "failed to parse goroutine id on line")
             ELSE Ret([s EXCEPT !.goroutines =
                                   Append(@, NewRaceGoroutine(id.n, FALSE, w, addr.v)),
                                !.goroutineIndex = Len(s.goroutines) + 1,
                                !.state = "gotRaceOperationHeader"],
                      <<>>, "")
    ELSE scanBetweenRaceGoroutines(s, line, t)

\* is i an index of the goroutines whose creator chain holds a Call
ValidCreatorIndex(s) ==
    /\ s.goroutineIndex \in 1..Len(s.goroutines)
    /\ s.goroutines[s.goroutineIndex].CreatedBy.Calls # <<>>

\* case gotRaceGoroutineFunc
scanGotRaceGoroutineFunc(s, line, t) ==
    IF ~ValidCreatorIndex(s) THEN Panic(s)
    ELSE LET i == s.goroutineIndex
             c == s.goroutines[i].CreatedBy.Calls
             pf == parseFile(c[Len(c)], t)
         IN  IF pf.err # "" THEN Ret(s, <<>>, pf.err)
             ELSE IF ~pf.found
             THEN Ret(s, <<>>, "expected a file after a race function")
             ELSE Ret([s EXCEPT !.goroutines[i].CreatedBy.Calls[Len(c)] = pf.c,
                                !.state = "gotRaceGoroutineFile"],
                      <<>>, "")

\* case gotRaceGoroutineHeader
scanGotRaceGoroutineHeader(s, line, t) ==
    IF s.goroutineIndex \notin 1..Len(s.goroutines) THEN Panic(s)
    ELSE LET pf == parseFunc(trimLeftSpace(t))
         IN  IF pf.found
             THEN Ret([s EXCEPT !.goroutines[s.goroutineIndex].CreatedBy.Calls =
                                    Append(@, pf.c),
                                !.state = "gotRaceGoroutineFunc"],
                      <<>>, pf.err)
             ELSE Ret(s, <<>>,
                      "expected a function after a race operation or a race file")

\* case gotRaceGoroutineFile without its banner branch
scanGotRaceGoroutineFile_NoFooter(s, line, t) ==
    IF IsEmpty(t)
    THEN Ret([s EXCEPT !.state = "betweenRaceGoroutines"], <<>>, "")
    ELSE scanGotRaceGoroutineHeader(s, line, t)

\* case gotRaceGoroutineFile
scanGotRaceGoroutineFile(s, line, t) ==
    IF IsEmpty(t)
    THEN Ret([s EXCEPT !.state = "betweenRaceGoroutines"], <<>>, "")
    ELSE IF IsRaceHeaderFooter(t)
    THEN Ret([s EXCEPT !.state = "normal"], <<>>, "")
    ELSE scanGotRaceGoroutineHeader(s, line, t)

\* states in which scan uses cur, the last goroutine of the list
UsesCur ==
    {"gotRoutineHeader", "gotFunc", "gotCreated", "gotFileFunc", "gotUnavail",
     "gotRaceOperationHeader", "gotRaceOperationFunc", "gotRaceOperationFile"}

\* switch s.state
scanSwitch(s, line, t) ==
    LET cur == s.goroutines[Len(s.goroutines)]
    IN  IF s.state \in UsesCur /\ s.goroutines = <<>> THEN Panic(s)
        ELSE CASE s.state \in {"normal", "betweenRoutine"} -> scanNormal(s, line, t)
          [] s.state = "gotRoutineHeader" -> scanGotRoutineHeader(s, cur, line, t)
          [] s.state = "gotFunc" -> scanGotFunc(s, cur, line, t)
          [] s.state = "gotCreated" -> scanGotCreated(s, cur, line, t)
          [] s.state = "gotFileFunc" -> scanGotFileFunc(s, cur, line, t)
          [] s.state = "gotFileCreated" -> scanGotFileCreated(s, line, t)
          [] s.state = "gotUnavail" -> scanGotUnavail(s, cur, line, t)
          [] s.state = "gotRaceHeader1" -> scanGotRaceHeader1(s, line, t)
          [] s.state = "gotRaceHeader2" -> scanGotRaceHeader2(s, line, t)
          [] s.state = "gotRaceOperationHeader" ->
                scanGotRaceOperationHeader(s, cur, line, t)
          [] s.state = "gotRaceOperationFunc" ->
                scanGotRaceOperationFunc(s, cur, line, t)
          [] s.state = "gotRaceOperationFile" ->
                scanGotRaceOperationFile(s, cur, line, t)
          [] s.state = "betweenRaceOperations" -> scanBetweenRaceOperations(s, line, t)
          [] s.state = "betweenRaceGoroutines" -> scanBetweenRaceGoroutines(s, line, t)
          [] s.state = "gotRaceGoroutineFunc" -> scanGotRaceGoroutineFunc(s, line, t)
          [] s.state = "gotRaceGoroutineFile" -> scanGotRaceGoroutineFile(s, line, t)
          [] s.state = "gotRaceGoroutineHeader" ->
                scanGotRaceGoroutineHeader(s, line, t)
          [] OTHER -> Ret(s, <<>>, "internal error")

\* the line without its terminator.  A line that ends in neither CRLF nor LF
\* is kept whole.
Trimmed(line) == [line EXCEPT !.eol = NoEOL]

\* an unterminated line let through whatever the state
LetThrough_AnyState(s, line) == line.eol = NoEOL

\* an unterminated line met in state normal: scan returns it at once
LetThrough(s, line) == line.eol = NoEOL /\ s.state = "normal"

\* the prefix check without its test for an empty line
BadIndent_EmptyToo(s, trimmed) ==
    /\ Len(s.prefix) # 0
    /\ ~HasPrefix(trimmed.ws, s.prefix)

\* does scan find the indentation of trimmed inconsistent with the prefix.
\* The prefix holds blanks only and no lead or syntax starts with a blank,
\* so trimmed starts with the prefix exactly when its whitespace does.
BadIndent(s, trimmed) ==
    /\ ~IsEmpty(trimmed)
    /\ Len(s.prefix) # 0
    /\ ~HasPrefix(trimmed.ws, s.prefix)

\* trimmed[len(s.prefix):] when there is a prefix to strip
StripPrefix(s, trimmed) ==
    IF ~IsEmpty(trimmed) /\ Len(s.prefix) # 0
    THEN [trimmed EXCEPT !.ws = Drop(@, Len(s.prefix))]
    ELSE trimmed

\* scan(line): strips the terminator, lets an unterminated line through when
\* the state is normal, checks and strips the block's prefix, then switches
\* on the state.
scan(s, line) ==
    IF LetThrough(s, line) THEN Ret(s, <<line>>, "")
    ELSE IF BadIndent(s, Trimmed(line))
    THEN Ret([s EXCEPT !.state = "normal", !.prefix = <<>>], <<>>,
             "inconsistent indentation")
    ELSE scanSwitch(s, line, StripPrefix(s, Trimmed(line)))

\* does this call of scan match the line against reRoutineHeader or
\* reRaceOperationHeader with success
Recognizes(s, line) ==
    /\ ~LetThrough(s, line)
    /\ ~BadIndent(s, Trimmed(line))
    /\ LET t == StripPrefix(s, Trimmed(line))
       IN  \/ s.state \in {"normal", "betweenRoutine"} /\ MatchRoutineHeader(t)
           \/ s.state = "gotRaceHeader2" /\ MatchRaceOperationHeader(t)

\* -------------------------------------------------------------------------
\* parseDump and ParseDump
\* -------------------------------------------------------------------------

VARIABLES
    s,        \* the scanningState of parseDump
    wasLong,  \* parseDump's wasLong
    out,      \* the sink: the chunks written to out, in order
    pc,       \* "loop": in the loop of parseDump; "returned"; "panicked"
    ret,      \* what parseDump returned: [goroutines, err]
    ctx,      \* what ParseDump returned: [isNil, Goroutines, err]
    stream,   \* the unread lines of a reader with given contents
    atEOF,    \* the reader has reported the end of the stream
    input,    \* history: the whole contents of a reader with given contents
    recognized, \* history: scan has matched a routine header or a race
              \* operation header
    parsedRoutines, \* parsedRoutines of parse in combinestacks.go
    createdByFound, \* createdByFound of parse in combinestacks.go
    groups,   \* groups of writeAggregated: hash -> the routines with it
    sortedGroupHashes, \* sortedGroupHashes of writeAggregated
    buckets,  \* buckets of ProcessHTML: what stack.Aggregate returned
    similar,  \* the Similarity handed to stack.Aggregate; "" before the call
    request,  \* the *http.Request handleUpload serves
    status    \* the status of the response; 0 while none is written

vars == <<s, wasLong, out, pc, ret, ctx, stream, atEOF, input, recognized,
          parsedRoutines, createdByFound, groups, sortedGroupHashes,
          buckets, similar, request, status>>

\* errors of bufio.Reader.ReadSlice; "" is nil
EOF == "EOF"
ErrBufferFull == "bufio: buffer full"

\* out.Write(p) on a sink that does not fail; an empty p adds no byte
HasNoBytes(line) == IsEmpty(line) /\ line.eol = NoEOL
Write(sink, p) == IF HasNoBytes(p) THEN sink ELSE Append(sink, p)

\* ParseDump returning no Context with an error
ParseDump_NilOnError(goroutines, err) ==
    IF Len(goroutines) = 0 \/ err # ""
    THEN [isNil |-> TRUE, Goroutines |-> <<>>, err |-> err]
    ELSE [isNil |-> FALSE, Goroutines |-> goroutines, err |-> err]

\* ParseDump after parseDump returned (goroutines, err): a nil Context when
\* there is no goroutine
ParseDump(goroutines, err) ==
    IF Len(goroutines) = 0
    THEN [isNil |-> TRUE, Goroutines |-> <<>>, err |-> err]
    ELSE [isNil |-> FALSE, Goroutines |-> goroutines, err |-> err]

NoRet == [goroutines |-> <<>>, err |-> ""]
NoCtx == [isNil |-> TRUE, Goroutines |-> <<>>, err |-> ""]

\* parseDump returns (goroutines, err) and ParseDump builds its result
Return(goroutines, err) ==
    /\ pc' = "returned"
    /\ ret' = [goroutines |-> goroutines, err |-> err]
    /\ ctx' = ParseDump(goroutines, err)

\* the error parseDump holds after scan, the reader's EOF hiding scan's
errAfterScan_EOFFirst(rerr, err1) ==
    IF err1 # "" /\ rerr = "" THEN err1 ELSE rerr

\* the error parseDump holds after scan: the reader's, replaced by scan's
\* when the reader's is nil or EOF
errAfterScan(rerr, err1) ==
    IF err1 # "" /\ (rerr = "" \/ rerr = EOF) THEN err1 ELSE rerr

\* the loop of parseDump without wasLong: what follows a full buffer is
\* scanned as a line
Iterate_TailScanned(slice, rerr) ==
    /\ pc = "loop"
    /\ UNCHANGED <<parsedRoutines, createdByFound, groups, sortedGroupHashes,
                   buckets, similar, request, status>>
    /\ atEOF' = (atEOF \/ rerr = EOF)
    /\ recognized' = (recognized \/ (rerr # ErrBufferFull /\ Recognizes(s, slice)))
    /\ wasLong' = wasLong
    /\ IF rerr = ErrBufferFull
       THEN /\ out' = Write(out, slice)
            /\ UNCHANGED <<s, pc, ret, ctx>>
       ELSE LET r == scan(s, slice)
                err == errAfterScan(rerr, r.err)
            IN  /\ s' = r.s
                /\ IF r.panicked
                   THEN /\ pc' = "panicked"
                        /\ UNCHANGED <<out, ret, ctx>>
                   ELSE /\ out' = IF r.out # <<>> THEN Write(out, r.out[1]) ELSE out
                        /\ IF err = EOF THEN Return(r.s.goroutines, "")
                           ELSE IF err # "" THEN Return(r.s.goroutines, err)
                           ELSE UNCHANGED <<pc, ret, ctx>>

\* One iteration of the loop of parseDump, for the (slice, rerr) that
\* ReadSlice returned.
Iterate(slice, rerr) ==
    /\ pc = "loop"
    /\ UNCHANGED <<parsedRoutines, createdByFound, groups, sortedGroupHashes,
                   buckets, similar, request, status>>
    /\ atEOF' = (atEOF \/ rerr = EOF)
    /\ recognized' = (recognized \/ (rerr # ErrBufferFull /\ ~wasLong
                                       /\ Recognizes(s, slice)))
    /\ IF rerr = ErrBufferFull \/ wasLong
       THEN \* the line is too long
            /\ wasLong' = (rerr = ErrBufferFull)
            /\ out' = Write(out, slice)
            /\ UNCHANGED <<s, pc, ret, ctx>>
       ELSE LET r == scan(s, slice)
                err == errAfterScan(rerr, r.err)
            IN  /\ wasLong' = wasLong
                /\ s' = r.s
                /\ IF r.panicked
                   THEN /\ pc' = "panicked"
                        /\ UNCHANGED <<out, ret, ctx>>
                   ELSE /\ out' = IF r.out # <<>> THEN Write(out, r.out[1]) ELSE out
                        /\ IF err = EOF THEN Return(r.s.goroutines, "")
                           ELSE IF err # "" THEN Return(r.s.goroutines, err)
                           ELSE UNCHANGED <<pc, ret, ctx>>

\* -------------------------------------------------------------------------
\* The reader
\* -------------------------------------------------------------------------

\* the file lines of a block are indented by a tab
FileIndent == <<TAB>>

Running == <<WordItem("running")>>
Sleeping == <<WordItem("chan receive"), MinutesItem(<<5>>), lockedToThread>>

\* a goroutine number too long for an int
LongID == <<9, 9, 9, 9, 9, 9, 9, 9, 9, 9, 9, 9, 9, 9, 9, 9, 9, 9, 9>>

\* 0xc000194000, a pointer, and 0x10, none
PtrArg == HexPiece(<<12, 0, 0, 0, 1, 9, 4, 0, 0, 0>>)
IntArg == HexPiece(<<1, 0>>)
RaceAddress == <<0, 0, 12, 0, 0, 0, 0, 14, 4, 0, 3, 0>>
\* 0x10000000000000000, an address of more than 64 bits
LongAddress == <<1, 0, 0, 0, 0, 0, 0, 0, 0, 0, 0, 0, 0, 0, 0, 0, 0>>

\* the terminated lines an arbitrary reader may deliver
TermLines ==
    {HeaderLine(<<>>, <<1>>, Running, LF),
     HeaderLine(<<>>, <<2>>, Sleeping, LF),
     HeaderLine(<<>>, LongID, Running, LF),
     CallLine(<<>>, "main.main", <<>>, LF),
     CallLine(<<>>, "main.g", <<WordPiece>>, LF),
     FileLine(FileIndent, "/a/x.go", <<2, 6>>, " +0x76", LF),
     FileLine(FileIndent, "/a/x.go", LongID, "", LF),
     FileLine(FileIndent, "/a/notes.txt", <<7>>, "", LF),
     UnavailLine(FileIndent, LF),
     CreatedLine(<<>>, "main.main", LF),
     ElidedLine(<<>>, LF),
     BlankLine(<<>>, LF),
     BlankLine(<<>>, CRLF),
     TextLine(<<>>, "panic: oops", LF),
     BannerLine(<<>>, LF),
     WarningLine(<<>>, LF),
     RaceOpLine(<<>>, "Read", RaceAddress, <<1>>, LF),
     RaceOpLine(<<>>, "Write", LongAddress, <<1>>, LF),
     RacePrevLine(<<>>, "write", RaceAddress, <<2>>, LF),
     RaceGoroutineLine(<<>>, <<1>>, "running", LF)}

\* the last, unterminated slice of a stream, delivered with EOF
FinalSlices ==
    {EmptySlice,
     HeaderLine(<<>>, <<1>>, Running, NoEOL),
     CallLine(<<>>, "main.main", <<>>, NoEOL),
     FileLine(FileIndent, "/a/x.go", <<2, 6>>, " +0x76", NoEOL),
     TextLine(<<>>, "panic: oops", NoEOL)}

\* bufio.Reader.ReadSlice('\n') on a reader holding the lines of stream: a
\* terminated line; a full buffer of a longer line (ErrBufferFull); at the
\* end of the stream what is left of it, possibly nothing, with EOF
ReadSlice(lines) ==
    IF lines = <<>> THEN [slice |-> EmptySlice, err |-> EOF, rest |-> <<>>]
    ELSE IF Head(lines).kind = "long"
    THEN [slice |-> Head(lines), err |-> ErrBufferFull, rest |-> Tail(lines)]
    ELSE IF Head(lines).eol = NoEOL
    THEN [slice |-> Head(lines), err |-> EOF, rest |-> <<>>]
    ELSE [slice |-> Head(lines), err |-> "", rest |-> Tail(lines)]

\* -------------------------------------------------------------------------
\* Specification: ParseDump on an arbitrary reader
\* -------------------------------------------------------------------------

\* no request is served
NoRequest ==
    [method |-> "", malformed |-> FALSE, text |-> <<>>, hasFile |-> FALSE,
     file |-> <<>>]

InitParser ==
    /\ s = ZeroScanningState
    /\ wasLong = FALSE
    /\ out = <<>>
    /\ pc = "loop"
    /\ ret = NoRet
    /\ ctx = NoCtx
    /\ atEOF = FALSE
    /\ recognized = FALSE
    /\ parsedRoutines = <<>>
    /\ createdByFound = FALSE
    /\ groups = [h \in {} |-> <<>>]
    /\ sortedGroupHashes = <<>>
    /\ buckets = <<>>
    /\ similar = ""
    /\ request = NoRequest
    /\ status = 0

Init ==
    /\ InitParser
    /\ stream = <<>>
    /\ input = <<>>

\* the items the parser holds: goroutines, their Calls, chunks of the sink
RECURSIVE SizeOf(_)
SizeOf(gs) ==
    IF gs = <<>> THEN 0
    ELSE 1 + Len(Head(gs).Stack.Calls) + Len(Head(gs).CreatedBy.Calls)
           + SizeOf(Tail(gs))

\* the parser holds no more than the bounds allow
WithinBounds(sc, sink) == SizeOf(sc.goroutines) + 2 * Len(sink) <= MaxSize

\* the reader delivers a terminated line
ReadLine ==
    /\ ~atEOF
    /\ \E l \in TermLines : Iterate(l, "")
    /\ WithinBounds(s', out')
    /\ UNCHANGED <<stream, input>>

\* the reader delivers a full buffer of a line longer than the buffer
ReadFull ==
    /\ ~atEOF
    /\ Iterate(LongFragment, ErrBufferFull)
    /\ WithinBounds(s', out')
    /\ UNCHANGED <<stream, input>>

\* the reader reaches the end of the stream
ReadEOF ==
    /\ \E l \in FinalSlices :
          /\ atEOF => l = EmptySlice
          /\ Iterate(l, EOF)
    /\ WithinBounds(s', out')
    /\ UNCHANGED <<stream, input>>

Next == ReadLine \/ ReadFull \/ ReadEOF

Spec == Init /\ [][Next]_vars

\* -------------------------------------------------------------------------
\* Specification: ParseDump on a reader with given contents
\* -------------------------------------------------------------------------

\* the decimal digits of n
RECURSIVE DigitsOf(_)
DigitsOf(n) ==
    IF n < 10 THEN <<n>> ELSE Append(DigitsOf(n \div 10), n % 10)

\* line numbers of the file lines of given inputs
LineNumbers == {7, 26}

\* the number a file line shows
LineNumberOf(line) == CHOOSE n \in LineNumbers : DigitsOf(n) = line.num

Terminators == {LF, CRLF}

\* indentation of a block, and of its file lines within the block
Indents == {<<>>, <<SP>>}
FileIndents == {<<TAB>>, <<SP, SP>>}

GivenHeaders ==
    {HeaderLine(<<>>, <<1>>, Running, LF),
     HeaderLine(<<>>, <<1, 2, 3, 4, 5>>, Sleeping, LF)}

GivenCalls ==
    {CallLine(<<>>, "main.main", <<>>, LF),
     CallLine(<<>>, "main.main.func1", <<PtrArg>>, LF),
     CallLine(<<>>, "pkg.(*T).M", <<IntArg, DotsPiece>>, LF)}

GivenFiles ==
    {FileLine(<<>>, path, DigitsOf(n), tail, LF) :
        path \in {"/a/x.go", "/a/asm.s", "<autogenerated>"},
        n \in LineNumbers,
        tail \in FileTails}

GivenCreated ==
    {CreatedLine(<<>>, "main.main", LF),
     CreatedLine(<<>>, "pkg.(*Group).Go", LF)}

\* the line b at indentation ws with terminator eol
At(b, ws, eol) == [b EXCEPT !.ws = ws, !.eol = eol]

\* a header, a call line and an indented file line; the last line may lack
\* its terminator
ValidSingleInputs ==
    {<<At(h, ind, eol), At(c, ind, eol), At(f, ind \o find, eol2)>> :
        h \in GivenHeaders, c \in GivenCalls, f \in GivenFiles,
        ind \in Indents, find \in FileIndents,
        eol \in Terminators, eol2 \in {LF, NoEOL}}

\* a header, the stack-unavailable line, a created-by line and its file line
UnavailInputs ==
    {<<At(h, ind, eol), UnavailLine(ind \o find, eol), At(c, ind, eol),
       At(f, ind \o find, eol2)>> :
        h \in GivenHeaders, c \in GivenCreated,
        f \in {FileLine(<<>>, "/a/x.go", DigitsOf(n), " +0x76", LF) :
                    n \in LineNumbers},
        ind \in Indents, find \in FileIndents,
        eol \in Terminators, eol2 \in {LF, NoEOL}}

\* segments of a dump: a junk line, or a routine block closed by a blank line
JunkLines ==
    {TextLine(<<>>, "panic: oops", LF),
     TextLine(<<>>, "exit status 2", CRLF),
     BannerLine(<<>>, LF)}

BlockA ==
    <<HeaderLine(<<>>, <<1>>, Running, LF),
      CallLine(<<>>, "main.main", <<>>, LF),
      FileLine(<<TAB>>, "/a/x.go", DigitsOf(26), " +0x76", LF),
      BlankLine(<<>>, LF)>>

BlockB ==
    <<HeaderLine(<<>>, <<2>>, Sleeping, LF),
      CallLine(<<>>, "main.main.func1", <<PtrArg>>, LF),
      FileLine(<<TAB>>, "/a/x.go", DigitsOf(7), "", LF),
      CreatedLine(<<>>, "main.main", LF),
      FileLine(<<TAB>>, "/a/x.go", DigitsOf(26), " +0x76", LF),
      BlankLine(<<>>, LF)>>

Segments == {<<j>> : j \in JunkLines} \cup {BlockA, BlockB}

RECURSIVE Flatten(_)
Flatten(segs) ==
    IF segs = <<>> THEN <<>> ELSE Head(segs) \o Flatten(Tail(segs))

\* dumps of valid blocks with junk lines before, between and after them
JunkDumps ==
    {Flatten(segs) : segs \in UNION {[1..n -> Segments] : n \in 1..MaxSegments}}

\* pieces an argument list may hold
GivenPieces == {PtrArg, IntArg, DotsPiece, EmptyPiece, WordPiece}

\* the argument lists of up to MaxArgs pieces; the list without a piece is
\* the text of the list that holds one empty piece
GivenArgLists ==
    (UNION {[1..n -> GivenPieces] : n \in 1..MaxArgs} \ {<<EmptyPiece>>})
        \cup {<<>>}

\* a header, a call line with a given argument list, and a file line
ArgDumps ==
    {<<HeaderLine(<<>>, <<1>>, Running, LF),
       CallLine(<<>>, "main.g", args, LF),
       FileLine(<<TAB>>, "/a/x.go", DigitsOf(26), " +0x76", LF)>> :
        args \in GivenArgLists}

\* a header, a call line, and a file line with other text after its line
\* number
NoisyFileDumps ==
    {<<HeaderLine(<<>>, <<1>>, Running, LF),
       CallLine(<<>>, "main.main", <<>>, LF),
       FileLine(<<TAB>>, "/a/x.go", DigitsOf(26), tail, eol)>> :
        tail \in LooseTails \cup NoiseTails, eol \in Terminators}

GivenInputs ==
    ValidSingleInputs \cup UnavailInputs \cup JunkDumps \cup ArgDumps
        \cup NoisyFileDumps

InitGiven ==
    /\ InitParser
    /\ input \in GivenInputs
    /\ stream = input

\* parseDump reads the next slice of the given stream
ReadStream ==
    /\ LET rd == ReadSlice(stream)
       IN  /\ Iterate(rd.slice, rd.err)
           /\ stream' = rd.rest
    /\ UNCHANGED input

NextGiven == ReadStream

SpecGiven == InitGiven /\ [][NextGiven]_vars

\* -------------------------------------------------------------------------
\* Specification: parseDump run to its end on a finite stream
\* -------------------------------------------------------------------------

\* a block followed by the start of a race report
RaceAfterBlock ==
    BlockA \o <<BannerLine(<<>>, LF), WarningLine(<<>>, LF),
                RaceOpLine(<<>>, "Read", RaceAddress, <<1>>, LF),
                CallLine(<<>>, "main.main", <<>>, LF)>>

\* how a stream may end: on a terminated line, on an unterminated line, on a
\* line longer than the read buffer, terminated or not
Endings ==
    {<<>>,
     <<TextLine(<<>>, "panic: oops", NoEOL)>>,
     <<CallLine(<<>>, "main.main", <<>>, NoEOL)>>,
     <<LongFragment, TextLine(<<>>, "panic: oops", LF)>>,
     <<LongFragment, LongFragment, TextLine(<<>>, "panic: oops", NoEOL)>>,
     <<LongFragment>>}

FiniteInputs ==
    {d \o e : d \in JunkDumps \cup {<<>>, RaceAfterBlock}, e \in Endings}

InitFinite ==
    /\ InitParser
    /\ input \in FiniteInputs
    /\ stream = input

NextFinite == ReadStream

\* the loop of parseDump has no blocking step but the read, and the reader
\* of a finite stream always answers
SpecFinite == InitFinite /\ [][NextFinite]_vars /\ WF_vars(NextFinite)

\* -------------------------------------------------------------------------
\* Specification: ParseDump on an arbitrary reader of indented lines
\* -------------------------------------------------------------------------

\* the terminated lines of an indented dump: each line comes without
\* indentation and indented by one blank
IndentedLines ==
    UNION {{HeaderLine(ws, <<1>>, Running, LF),
            CallLine(ws, "main.main", <<>>, LF),
            FileLine(ws \o <<TAB>>, "/a/x.go", <<2, 6>>, " +0x76", LF),
            BlankLine(ws, LF),
            TextLine(ws, "panic: oops", LF),
            BannerLine(ws, LF)} : ws \in Indents}

\* the last, unterminated slice of an indented dump, delivered with EOF
IndentedFinalSlices ==
    {EmptySlice,
     TextLine(<<>>, "panic: oops", NoEOL),
     CallLine(<<SP>>, "main.main", <<>>, NoEOL)}

WithinIndentBounds(sc, sink) ==
    SizeOf(sc.goroutines) + 2 * Len(sink) <= MaxIndentSize

\* the reader delivers a terminated line of an indented dump
ReadIndented ==
    /\ ~atEOF
    /\ \E l \in IndentedLines : Iterate(l, "")
    /\ WithinIndentBounds(s', out')
    /\ UNCHANGED <<stream, input>>

\* the reader reaches the end of an indented dump
ReadIndentedEOF ==
    /\ \E l \in IndentedFinalSlices :
          /\ atEOF => l = EmptySlice
          /\ Iterate(l, EOF)
    /\ WithinIndentBounds(s', out')
    /\ UNCHANGED <<stream, input>>

NextIndent == ReadIndented \/ ReadIndentedEOF

SpecIndent == Init /\ [][NextIndent]_vars

\* -------------------------------------------------------------------------
\* stack.Aggregate, as ProcessHTML calls it
\* -------------------------------------------------------------------------

\* the modes of comparison: exact match of the argument values, and any
\* pointer-shaped value taken as equal to any other
ExactFlags == "ExactFlags"
AnyPointer == "AnyPointer"
Similarities == {ExactFlags, AnyPointer}

\* two argument values compared under the mode sim
similarArg(a, b, sim) ==
    IF sim = AnyPointer /\ a.IsPtr /\ b.IsPtr THEN TRUE ELSE a.Value = b.Value

\* two argument lists: elision markers are compared as such
similarArgs(x, y, sim) ==
    /\ x.Elided = y.Elided
    /\ Len(x.Values) = Len(y.Values)
    /\ \A i \in 1..Len(x.Values) : similarArg(x.Values[i], y.Values[i], sim)

\* two Calls: function, path, line and arguments
similarCall(c, d, sim) ==
    /\ c.Func = d.Func
    /\ c.SrcPath = d.SrcPath
    /\ c.Line = d.Line
    /\ similarArgs(c.Args, d.Args, sim)

similarCalls(cs, ds, sim) ==
    /\ Len(cs) = Len(ds)
    /\ \A i \in 1..Len(cs) : similarCall(cs[i], ds[i], sim)

\* two routines: state, stack and creator chain
similarSignature(g, h, sim) ==
    /\ g.State = h.State
    /\ g.Stack.Elided = h.Stack.Elided
    /\ similarCalls(g.Stack.Calls, h.Stack.Calls, sim)
    /\ similarCalls(g.CreatedBy.Calls, h.CreatedBy.Calls, sim)

\* the buckets in first-seen order after the routines from the i-th on
\* joined them: a routine joins the first bucket whose signature is similar
\* to its own, or opens a bucket
RECURSIVE joinBuckets(_, _, _, _)
joinBuckets(bs, goroutines, i, sim) ==
    IF i > Len(goroutines) THEN bs
    ELSE LET g == goroutines[i]
             hits == {k \in 1..Len(bs) : similarSignature(bs[k].Signature, g, sim)}
         IN  IF hits = {}
             THEN joinBuckets(Append(bs, [Signature |-> g, IDs |-> <<g.ID>>,
                                          First |-> g.First]),
                              goroutines, i + 1, sim)
             ELSE LET k == CHOOSE m \in hits : \A n \in hits : m <= n
                  IN  joinBuckets([bs EXCEPT ![k].IDs = Append(@, g.ID),
                                             ![k].First = @ \/ g.First],
                                  goroutines, i + 1, sim)

\* b put into the sorted buckets bs after every bucket that is not smaller
RECURSIVE insertBucket(_, _)
insertBucket(bs, b) ==
    IF bs = <<>> THEN <<b>>
    ELSE IF Len(Head(bs).IDs) >= Len(b.IDs)
         THEN <<Head(bs)>> \o insertBucket(Tail(bs), b)
         ELSE <<b>> \o bs

\* the buckets by descending size, ties in first-seen order
RECURSIVE sortBuckets(_, _)
sortBuckets(bs, i) ==
    IF i = 0 THEN <<>> ELSE insertBucket(sortBuckets(bs, i - 1), bs[i])

\* stack.Aggregate(goroutines, similar)
Aggregate(goroutines, sim) ==
    LET bs == joinBuckets(<<>>, goroutines, 1, sim)
    IN  sortBuckets(bs, Len(bs))

\* ProcessHTML after ParseDump: it returns when the Context is nil or the
\* parse failed, and aggregates the routines otherwise.  ProcessHTML hands
\* AnyPointer to stack.Aggregate; the call is modelled under either mode.
CallAggregate ==
    /\ pc = "returned"
    /\ ~ctx.isNil
    /\ ctx.err = ""
    /\ \E sim \in Similarities :
         /\ similar' = sim
         /\ buckets' = Aggregate(ctx.Goroutines, sim)
    /\ pc' = "aggregated"
    /\ UNCHANGED <<s, wasLong, out, ret, ctx, stream, atEOF, input, recognized,
                   parsedRoutines, createdByFound, groups, sortedGroupHashes,
                   request, status>>

\* -------------------------------------------------------------------------
\* Specification: ParseDump, then stack.Aggregate, on two blocks
\* -------------------------------------------------------------------------

\* arguments of the call line of a block
MaxPairArgs == 2

\* 0xc000194008, another pointer, and 0x20, another number that is none
PtrArg2 == HexPiece(<<12, 0, 0, 0, 1, 9, 4, 0, 0, 8>>)
IntArg2 == HexPiece(<<2, 0>>)

PairArgLists ==
    UNION {[1..n -> {PtrArg, PtrArg2, IntArg, IntArg2}] : n \in 1..MaxPairArgs}

\* a header, a call line with the arguments args, its file line and a blank
\* line
PairBlock(id, args) ==
    <<HeaderLine(<<>>, id, Running, LF),
      CallLine(<<>>, "main.main.func1", args, LF),
      FileLine(<<TAB>>, "/a/x.go", DigitsOf(26), " +0x76", LF),
      BlankLine(<<>>, LF)>>

\* two blocks that differ in their number and, possibly, in their arguments
PairDumps ==
    UNION {{PairBlock(<<1>>, a) \o PairBlock(<<2>>, b) :
                b \in {c \in PairArgLists : Len(c) = Len(a)}} :
           a \in PairArgLists}

InitPair ==
    /\ InitParser
    /\ input \in PairDumps
    /\ stream = input

NextPair == ReadStream \/ CallAggregate

SpecPair == InitPair /\ [][NextPair]_vars

\* -------------------------------------------------------------------------
\* parse of combinestacks.go
\* -------------------------------------------------------------------------

frame(function, args, file, line) ==
    [function |-> function, args |-> args, file |-> file, line |-> line]

\* frame{}
ZeroFrame == frame(<<>>, <<>>, <<>>, 0)

\* a nil stack is the empty sequence: append never yields an empty stack
routine(label, state, stack, created) ==
    [label |-> label, state |-> state, stack |-> stack, created |-> created]

runtimeState == <<WordItem("running")>>

\* The bytes of a lead after its last blank.  Of the leads of the model
\* only "extra: " holds a blank.
LeadEnd(lead) == IF lead = "extra: " THEN "" ELSE lead

\* the tabs that end ws
RECURSIVE TrailingTabs(_)
TrailingTabs(ws) ==
    IF ws = <<>> \/ ws[Len(ws)] = SP THEN <<>>
    ELSE Append(TrailingTabs(SubSeq(ws, 1, Len(ws) - 1)), ws[Len(ws)])

\* What a group [^ ]+ that ends where the syntax starts takes of the text
\* before the syntax: a tab is no blank to it.
NonBlankBefore(t) ==
    IF LeadEnd(t.lead) = t.lead
    THEN TrailingTabs(t.ws) \o (IF t.lead = "" THEN <<>> ELSE <<t.lead>>)
    ELSE IF LeadEnd(t.lead) = "" THEN <<>> ELSE <<LeadEnd(t.lead)>>

\* What a group [^\s]+ that ends where the syntax starts takes of the text
\* before the syntax.
NonSpaceBefore(t) ==
    IF t.lead = "" \/ LeadEnd(t.lead) = "" THEN <<>> ELSE <<LeadEnd(t.lead)>>

\* startRuntimeStack: (runtime stack):
startRuntimeStack(t) == t.kind = "text" /\ t.name = "runtime stack:"

\* goroutineStart: goroutine (\d+) \[([^\]]+)\]
goroutineStart(t) == t.kind = "header" /\ t.id # <<>> /\ t.items # <<>>

\* callLine without its parentheses: ([^ ]+)\s*$
callLine_NoParens(t) == t.kind \in {"call", "unavail", "text"}

\* callLine: ([^ ]+)\(([^)]*)\)\s*$
callLine(t) == t.kind = "call"

\* createdByLine: created by ([^ ]+)
createdByLine(t) == t.kind = "created"

\* fileLine: ([^\s]+):(\d+)($| \+| fp=).*$
fileLine(t) ==
    /\ t.kind = "file"
    /\ t.num # <<>>
    /\ \A i \in 1..Len(t.num) : t.num[i] \in 0..9
    /\ t.tail \in FileTails \cup LooseTails

\* the digits of 1<<63 - 1
MaxInt64 == <<9, 2, 2, 3, 3, 7, 2, 0, 3, 6, 8, 5, 4, 7, 7, 5, 8, 0, 7>>

\* strconv.ParseInt(text, 10, 0) on a run of decimal digits: [ok, n]
ParseInt(ds) ==
    IF NumLess(MaxInt64, StripZeros(ds)) THEN [ok |-> FALSE, n |-> 0]
    ELSE [ok |-> TRUE, n |-> atouLoop(ds, 1, 0).n]

\* the change of the last routine is not written back
WithLast_NotWritten(routines, r) == routines

\* the routines with the last of them replaced by r
WithLast(routines, r) == [routines EXCEPT ![Len(routines)] = r]

Continue(routines, created) ==
    [routines |-> routines, createdByFound |-> created, err |-> ""]

Fail(err) == [routines |-> <<>>, createdByFound |-> FALSE, err |-> err]

\* The body of the loop of parse on the line t: the routines and the flag
\* after it, or the error it returns.
parseLine(routines, created, t) ==
    LET n == Len(routines)
    IN
    IF startRuntimeStack(t)
    THEN Continue(Append(routines,
                         routine(<<"runtime stack">>, runtimeState, <<>>, ZeroFrame)),
                  FALSE)
    ELSE IF goroutineStart(t)
    THEN Continue(Append(routines, routine(t.id, t.items, <<>>, ZeroFrame)),
                  FALSE)
    ELSE IF callLine(t)
    THEN IF n = 0 THEN Fail("found call line without a routine")
         ELSE LET f == frame(Append(NonBlankBefore(t), t.name), t.args, <<>>, 0)
              IN  Continue(WithLast(routines,
                                    [routines[n] EXCEPT !.stack = Append(@, f)]),
                           created)
    ELSE IF createdByLine(t)
    THEN IF n = 0 THEN Fail("found created by line without a routine")
         ELSE LET f == frame(<<t.name>>, <<>>, <<>>, 0)
              IN  Continue(WithLast(routines, [routines[n] EXCEPT !.created = f]),
                           TRUE)
    ELSE IF fileLine(t)
    THEN LET line == ParseInt(t.num)
             file == Append(NonSpaceBefore(t), t.path)
         IN  IF ~line.ok THEN Fail("value out of range")
             ELSE IF n = 0 THEN Fail("found file line without a routine")
             ELSE IF created
             THEN Continue(WithLast(routines,
                                    [routines[n] EXCEPT !.created.file = file,
                                                        !.created.line = line.n]),
                           FALSE)
             ELSE IF routines[n].stack = <<>>
             THEN Fail("found file line without a frame")
             ELSE LET k == Len(routines[n].stack)
                  IN  Continue(WithLast(routines,
                                        [routines[n] EXCEPT !.stack[k].file = file,
                                                            !.stack[k].line = line.n]),
                               created)
    ELSE Continue(routines, created)

\* -------------------------------------------------------------------------
\* Specification: parse on a reader with given contents
\* -------------------------------------------------------------------------

\* the lines of b with the text lead before their syntax
RECURSIVE WithLead(_, _)
WithLead(b, lead) ==
    IF b = <<>> THEN <<>>
    ELSE <<[Head(b) EXCEPT !.lead = lead]>> \o WithLead(Tail(b), lead)

\* the lines of b terminated by eol, the last of them by last
Terminated(b, eol, last) ==
    [i \in 1..Len(b) |-> [b[i] EXCEPT !.eol = IF i = Len(b) THEN last ELSE eol]]

ParseCalls ==
    {CallLine(<<>>, "main.main", <<>>, LF),
     CallLine(<<>>, "main.main.func1", <<PtrArg>>, LF),
     CallLine(<<>>, "pkg.(*T).M", <<IntArg, DotsPiece>>, LF)}

ParseFiles == {FileLine(<<>>, "/a/x.go", DigitsOf(n), " +0x76", LF) : n \in LineNumbers}

\* a call line and its file line
FramePairs == {<<c, f>> : c \in ParseCalls, f \in ParseFiles}

\* nothing, or a created-by line and its file line
CreatedPairs == {<<>>} \cup {<<c, f>> : c \in GivenCreated, f \in ParseFiles}

\* the lines of b indented: call lines by cws, file lines by fws
Indented(b, cws, fws) ==
    [i \in 1..Len(b) |->
        [b[i] EXCEPT !.ws = IF b[i].kind = "call" THEN cws
                            ELSE IF b[i].kind \in {"file", "unavail"} THEN fws
                            ELSE @]]

ParseLeads == {"", "extra: "}

\* a header, one to MaxFrames (call line, file line) pairs and, optionally,
\* a created-by line and its file line
FrameBlocks ==
    {Terminated(WithLead(Indented(<<h>> \o Flatten(pairs) \o cr, cws, fws), lead),
                eol, last) :
        h \in GivenHeaders,
        pairs \in UNION {[1..k -> FramePairs] : k \in 1..MaxFrames},
        cr \in CreatedPairs,
        cws \in {<<>>, <<TAB>>}, fws \in FileIndents,
        lead \in ParseLeads, eol \in Terminators, last \in {LF, NoEOL}}

\* lines that match no pattern of parse
NoMatchLines ==
    {BlankLine(<<>>, LF), UnavailLine(<<TAB>>, LF),
     TextLine(<<>>, "panic: oops", LF), ElidedLine(<<>>, LF)}

\* a header, the stack-unavailable line, a created-by line and its file
\* line, with lines that match no pattern before the header and between the
\* created-by line and its file line
UnavailBlocks ==
    {Terminated(WithLead(Indented(pre \o <<h, UnavailLine(<<>>, LF), c>>
                                      \o mid \o <<f>>, <<>>, fws), lead),
                eol, last) :
        h \in GivenHeaders, c \in GivenCreated, f \in ParseFiles,
        pre \in {<<>>, <<BlankLine(<<>>, LF)>>},
        mid \in {<<>>} \cup {<<j>> : j \in NoMatchLines},
        fws \in FileIndents, lead \in ParseLeads,
        eol \in Terminators, last \in {LF, NoEOL}}

\* inputs parse fails on, and a runtime stack
OtherDumps ==
    {<<CallLine(<<>>, "main.main", <<>>, LF)>>,
     <<CreatedLine(<<>>, "main.main", LF)>>,
     <<FileLine(<<TAB>>, "/a/x.go", DigitsOf(26), "", LF)>>,
     <<HeaderLine(<<>>, <<1>>, Running, LF),
       FileLine(<<TAB>>, "/a/x.go", DigitsOf(26), "", LF)>>,
     <<HeaderLine(<<>>, <<1>>, Running, LF),
       CallLine(<<>>, "main.main", <<>>, LF),
       FileLine(<<TAB>>, "/a/x.go", LongID, "", LF)>>,
     <<HeaderLine(<<>>, <<1>>, Running, LF), LongFragment>>,
     <<TextLine(<<>>, "runtime stack:", LF),
       CallLine(<<>>, "runtime.throw", <<IntArg>>, LF),
       FileLine(<<TAB>>, "/a/asm.s", DigitsOf(7), " fp=0x1 sp=0x2", LF)>>}

ParseInputs == FrameBlocks \cup UnavailBlocks \cup OtherDumps

InitParse ==
    /\ InitParser
    /\ input \in ParseInputs
    /\ stream = input

\* parse returns
ParseReturn(isNil, routines, err) ==
    /\ pc' = "returned"
    /\ ret' = [isNil |-> isNil, routines |-> routines, err |-> err]
    /\ UNCHANGED <<parsedRoutines, createdByFound>>

\* scanner.Scan() yields a line and the body of the loop runs on it
ScanLine ==
    /\ pc = "loop"
    /\ stream # <<>>
    /\ Head(stream).kind # "long"
    /\ stream' = Tail(stream)
    /\ LET r == parseLine(parsedRoutines, createdByFound, Head(stream))
       IN  IF r.err # "" THEN ParseReturn(TRUE, <<>>, r.err)
           ELSE /\ parsedRoutines' = r.routines
                /\ createdByFound' = r.createdByFound
                /\ UNCHANGED <<pc, ret>>
    /\ UNCHANGED <<s, wasLong, out, ctx, atEOF, input, recognized, groups,
                   sortedGroupHashes, buckets, similar, request, status>>

\* scanner.Scan() yields no line: the input has ended, or holds a line
\* longer than the scanner's buffer
ScanEnd ==
    /\ pc = "loop"
    /\ IF stream # <<>>
       THEN ParseReturn(TRUE, <<>>, "bufio.Scanner: token too long")
       ELSE ParseReturn(FALSE, parsedRoutines, "")
    /\ stream # <<>> => Head(stream).kind = "long"
    /\ UNCHANGED <<s, wasLong, out, ctx, stream, atEOF, input, recognized,
                   groups, sortedGroupHashes, buckets, similar, request, status>>

NextParse == ScanLine \/ ScanEnd

SpecParse == InitParse /\ [][NextParse]_vars

\* -------------------------------------------------------------------------
\* writeAggregated of combinestacks.go
\* -------------------------------------------------------------------------

\* strconv.Itoa on a number that is not negative: its decimal digits as text
Itoa(n) ==
    LET ds == DigitsOf(n)
    IN  [i \in 1..Len(ds) |->
            <<"0", "1", "2", "3", "4", "5", "6", "7", "8", "9">>[ds[i] + 1]]

\* the bytes of a text kept as a sequence of pieces
RECURSIVE Text(_)
Text(pieces) ==
    IF pieces = <<>> THEN "" ELSE Head(pieces) \o Text(Tail(pieces))

\* hashFrame with the arguments of the frame hashed as well
hashFrame_WithArgs(f) ==
    Text(f.function) \o "|" \o Text([i \in 1..Len(f.args) |-> f.args[i].t])
        \o "|" \o Text(f.file) \o "|" \o Text(Itoa(f.line)) \o "|"

\* hashFrame: the bytes it writes to the hasher, nothing between them
hashFrame(f) ==
    Text(f.function) \o "|" \o Text(f.file) \o "|" \o Text(Itoa(f.line)) \o "|"

\* what hash writes to the hasher for the frames of stack from the i-th on
RECURSIVE hashStack(_, _)
hashStack(stack, i) ==
    IF i > Len(stack) THEN ""
    ELSE hashFrame(stack[i]) \o hashStack(stack, i + 1)

\* hash: the sha256 sum of the bytes written stands for the bytes written
hash(r) == hashStack(r.stack, 1) \o hashFrame(r.created)

\* the first loop of writeAggregated keeping the last routine of a hash only
RECURSIVE appendGroups_Overwrite(_, _, _)
appendGroups_Overwrite(g, routines, i) ==
    IF i > Len(routines) THEN g
    ELSE LET h == hash(routines[i])
         IN  appendGroups_Overwrite(
                 [k \in DOMAIN g \cup {h} |->
                     IF k = h THEN <<routines[i]>> ELSE g[k]],
                 routines, i + 1)

\* the first loop of writeAggregated from the i-th routine on:
\* groups[h] = append(groups[h], r)
RECURSIVE appendGroups(_, _, _)
appendGroups(g, routines, i) ==
    IF i > Len(routines) THEN g
    ELSE LET h == hash(routines[i])
             old == IF h \in DOMAIN g THEN g[h] ELSE <<>>
         IN  appendGroups(
                 [k \in DOMAIN g \cup {h} |->
                     IF k = h THEN Append(old, routines[i]) ELSE g[k]],
                 routines, i + 1)

\* the less function with the comparison turned around
lessGroup_Smaller(g, a, b) == Len(g[a]) < Len(g[b])

\* the less function handed to sort.Slice
lessGroup(g, a, b) == Len(g[a]) > Len(g[b])

\* The orders sort.Slice may leave the keys of g in.  The keys are collected
\* by ranging over the map, in an order that is not specified, and
\* sort.Slice is not stable: every arrangement of the keys that is sorted by
\* lessGroup is a possible outcome.
SortedOrders(g) ==
    {o \in [1..Cardinality(DOMAIN g) -> DOMAIN g] :
        /\ \A i, j \in DOMAIN o : i # j => o[i] # o[j]
        /\ \A i, j \in DOMAIN o : i < j => ~lessGroup(g, o[j], o[i])}

\* "Found %d total goroutines"
FoundChunk(routines) == [kind |-> "found", total |-> Len(routines)]

\* the output of a group showing its last routine
GroupChunk_Last(group) ==
    [kind |-> "group", count |-> Len(group),
     label |-> group[Len(group)].label, state |-> group[Len(group)].state,
     stack |-> group[Len(group)].stack,
     created |-> IF group[Len(group)].created.function # <<>>
                 THEN <<group[Len(group)].created>> ELSE <<>>]

\* what is written for a group: its size, the label and the state of its
\* first routine, the frames of that routine and, when it has one, its
\* created frame
GroupChunk(group) ==
    [kind |-> "group", count |-> Len(group),
     label |-> group[1].label, state |-> group[1].state,
     stack |-> group[1].stack,
     created |-> IF group[1].created.function # <<>>
                 THEN <<group[1].created>> ELSE <<>>]

\* writeAggregated(w, routines): what it does to its locals and to w
writeAggregated(routines) ==
    LET g == appendGroups([h \in {} |-> <<>>], routines, 1)
    IN  /\ groups' = g
        /\ \E o \in SortedOrders(g) :
             /\ sortedGroupHashes' = o
             /\ out' = out \o <<FoundChunk(routines)>>
                           \o [i \in 1..Len(o) |-> GroupChunk(g[o[i]])]

\* main after parse returned without error: writeAggregated(os.Stdout, routines)
WriteAggregated ==
    /\ pc = "returned"
    /\ request = NoRequest
    /\ ret.err = ""
    /\ writeAggregated(ret.routines)
    /\ pc' = "written"
    /\ UNCHANGED <<s, wasLong, ret, ctx, stream, atEOF, input, recognized,
                   parsedRoutines, createdByFound, buckets, similar, request,
                   status>>

\* -------------------------------------------------------------------------
\* Specification: parse, then writeAggregated, on a dump of several blocks
\* -------------------------------------------------------------------------

\* routines of a dump
MaxRoutines == 4

\* a block: a header, a call line and its file line, a created-by line and
\* its file line when there is one, and a blank line
TraceBlock(id, state, args, n, cr) ==
    <<HeaderLine(<<>>, id, state, LF),
      CallLine(<<>>, "main.main", args, LF),
      FileLine(<<TAB>>, "/a/x.go", DigitsOf(n), " +0x76", LF)>>
        \o cr \o <<BlankLine(<<>>, LF)>>

\* a trace, and the same trace under another number, state and arguments
SameTraceBlocks ==
    {TraceBlock(<<1>>, Running, <<>>, 26, <<>>),
     TraceBlock(<<1, 2, 3, 4, 5>>, Sleeping, <<PtrArg>>, 26, <<>>)}

\* those, the trace at another line, and the trace with a creator
TraceBlocks ==
    SameTraceBlocks \cup
    {TraceBlock(<<2>>, Running, <<>>, 7, <<>>),
     TraceBlock(<<3>>, Running, <<>>, 26,
                <<CreatedLine(<<>>, "main.main", LF),
                  FileLine(<<TAB>>, "/a/x.go", DigitsOf(7), " +0x76", LF)>>)}

\* a routine of one frame without a file line, its function main.a|b, and a
\* routine of one frame, its function main.a and its file "b|", at line 0
BarBlocks ==
    {<<HeaderLine(<<>>, <<1>>, Running, LF),
       CallLine(<<>>, "main.a|b", <<>>, LF),
       BlankLine(<<>>, LF)>>,
     <<HeaderLine(<<>>, <<2>>, Running, LF),
       CallLine(<<>>, "main.a", <<>>, LF),
       FileLine(<<TAB>>, "b|", DigitsOf(0), "", LF),
       BlankLine(<<>>, LF)>>}

\* dumps of two of those blocks
BarDumps == {Flatten(bs) : bs \in [1..2 -> BarBlocks]}

\* dumps of up to MaxRoutines blocks, and the dumps of BarDumps
CombineInputs ==
    {Flatten(bs) : bs \in UNION {[1..n -> TraceBlocks] : n \in 0..MaxRoutines}}
        \cup BarDumps

InitCombine ==
    /\ InitParser
    /\ input \in CombineInputs
    /\ stream = input

NextCombine == ScanLine \/ ScanEnd \/ WriteAggregated

SpecCombine == InitCombine /\ [][NextCombine]_vars

\* -------------------------------------------------------------------------
\* handleUpload of combinestacks.go
\* -------------------------------------------------------------------------

StatusOK == 200
StatusBadRequest == 400
StatusMethodNotAllowed == 405

errMissing == "combinestacks: missing stack text"

\* getStackText taking an empty file for content
getStackText_EmptyFile(r) ==
    IF r.malformed THEN [v |-> <<>>, err |-> "multipart: malformed"]
    ELSE IF r.text # <<>> THEN [v |-> r.text, err |-> ""]
    ELSE IF ~r.hasFile THEN [v |-> <<>>, err |-> errMissing]
    ELSE [v |-> r.file, err |-> ""]

\* getStackText(r): [v, err].  A text is held as its lines; the empty
\* string is the text without a line.
getStackText(r) ==
    IF r.malformed THEN [v |-> <<>>, err |-> "multipart: malformed"]
    ELSE IF r.text # <<>> THEN [v |-> r.text, err |-> ""]
    ELSE IF ~r.hasFile THEN [v |-> <<>>, err |-> errMissing]
    ELSE IF r.file = <<>> THEN [v |-> <<>>, err |-> errMissing]
    ELSE [v |-> r.file, err |-> ""]

\* http.Error(w, text, code): w.WriteHeader(code), which sets the status
\* only when nothing was written to w before (the first Write sends the
\* header with status 200), then the text
httpError(text, code) ==
    /\ status' = IF out # <<>> THEN StatusOK ELSE code
    /\ out' = Append(out, [kind |-> "error", text |-> text])

\* handleUpload up to its call of parse: the request is answered, the
\* handler panics, or parse starts on the text of the request
UploadStart ==
    /\ pc = "request"
    /\ IF request.method # "POST"
       THEN /\ httpError("wrong method", StatusMethodNotAllowed)
            /\ pc' = "responded"
            /\ UNCHANGED <<stream, input>>
       ELSE LET t == getStackText(request)
            IN  IF t.err = errMissing
                THEN /\ httpError("must provide content", StatusBadRequest)
                     /\ pc' = "responded"
                     /\ UNCHANGED <<stream, input>>
                ELSE IF t.err # ""
                THEN /\ pc' = "panicked"
                     /\ UNCHANGED <<stream, input, status, out>>
                ELSE /\ pc' = "loop"
                     /\ stream' = t.v
                     /\ input' = t.v
                     /\ UNCHANGED <<status, out>>
    /\ UNCHANGED <<s, wasLong, ret, ctx, atEOF, recognized, parsedRoutines,
                   createdByFound, groups, sortedGroupHashes, buckets, similar,
                   request>>

\* handleUpload after parse returned: the error of parse is answered with
\* status 400, the report of writeAggregated with status 200
UploadRespond ==
    /\ pc = "returned"
    /\ request # NoRequest
    /\ IF ret.err # ""
       THEN /\ httpError(ret.err, StatusBadRequest)
            /\ UNCHANGED <<groups, sortedGroupHashes>>
       ELSE /\ writeAggregated(ret.routines)
            /\ status' = StatusOK
    /\ pc' = "responded"
    /\ UNCHANGED <<s, wasLong, ret, ctx, stream, atEOF, input, recognized,
                   parsedRoutines, createdByFound, buckets, similar, request>>

\* -------------------------------------------------------------------------
\* Specification: handleUpload on a request
\* -------------------------------------------------------------------------

\* texts a form may carry: none, two dumps parse accepts, text without a
\* routine, and a dump parse fails on.  In the second dump two routines of
\* one trace differ in their state.
UploadTexts ==
    {<<>>,
     TraceBlock(<<1>>, Running, <<>>, 26, <<>>),
     TraceBlock(<<1>>, Running, <<>>, 26, <<>>)
        \o TraceBlock(<<2>>, Running, <<>>, 7, <<>>)
        \o TraceBlock(<<1, 2, 3, 4, 5>>, Sleeping, <<PtrArg>>, 26, <<>>),
     <<TextLine(<<>>, "panic: oops", LF)>>,
     <<CallLine(<<>>, "main.main", <<>>, LF)>>}

Requests ==
    [method : {"GET", "POST"}, malformed : BOOLEAN, text : UploadTexts,
     hasFile : BOOLEAN, file : UploadTexts]

InitUpload ==
    /\ s = ZeroScanningState
    /\ wasLong = FALSE
    /\ out = <<>>
    /\ pc = "request"
    /\ ret = NoRet
    /\ ctx = NoCtx
    /\ stream = <<>>
    /\ atEOF = FALSE
    /\ input = <<>>
    /\ recognized = FALSE
    /\ parsedRoutines = <<>>
    /\ createdByFound = FALSE
    /\ groups = [h \in {} |-> <<>>]
    /\ sortedGroupHashes = <<>>
    /\ buckets = <<>>
    /\ similar = ""
    /\ request \in {r \in Requests : ~r.hasFile => r.file = <<>>}
    /\ status = 0

NextUpload == UploadStart \/ ScanLine \/ ScanEnd \/ UploadRespond

SpecUpload == InitUpload /\ [][NextUpload]_vars

\* -------------------------------------------------------------------------
\* handlePanicParse of combinestacks.go
\* -------------------------------------------------------------------------

\* htmlstack.WriteBuckets(out, buckets, ..): the page of the buckets
WriteBuckets(sink, bs) == Append(sink, [kind |-> "buckets", n |-> Len(bs)])

\* handlePanicParse up to its call of ProcessHTML: the request is answered,
\* the handler panics, or ParseDump starts on the text of the request
PanicParseStart ==
    /\ pc = "request"
    /\ IF request.method # "POST"
       THEN /\ httpError("wrong method", StatusMethodNotAllowed)
            /\ pc' = "responded"
            /\ UNCHANGED <<stream, input>>
       ELSE LET t == getStackText(request)
            IN  IF t.err = errMissing
                THEN /\ httpError("must provide content", StatusBadRequest)
                     /\ pc' = "responded"
                     /\ UNCHANGED <<stream, input>>
                ELSE IF t.err # ""
                THEN /\ pc' = "panicked"
                     /\ UNCHANGED <<stream, input, status, out>>
                ELSE /\ pc' = "loop"
                     /\ stream' = t.v
                     /\ input' = t.v
                     /\ UNCHANGED <<status, out>>
    /\ UNCHANGED <<s, wasLong, ret, ctx, atEOF, recognized, parsedRoutines,
                   createdByFound, groups, sortedGroupHashes, buckets, similar,
                   request>>

\* handlePanicParse after ParseDump returned inside ProcessHTML: ProcessHTML
\* returns the error of ParseDump, or nil when there is no Context, or
\* writes the buckets; handlePanicParse answers an error with http.Error
PanicParseRespond ==
    /\ pc = "returned"
    /\ request # NoRequest
    /\ IF ctx.err # ""
       THEN /\ httpError(ctx.err, StatusBadRequest)
            /\ UNCHANGED <<buckets, similar>>
       ELSE IF ctx.isNil
       THEN /\ status' = StatusOK
            /\ UNCHANGED <<out, buckets, similar>>
       ELSE /\ similar' = AnyPointer
            /\ buckets' = Aggregate(ctx.Goroutines, AnyPointer)
            /\ out' = WriteBuckets(out, buckets')
            /\ status' = StatusOK
    /\ pc' = "responded"
    /\ UNCHANGED <<s, wasLong, ret, ctx, stream, atEOF, input, recognized,
                   parsedRoutines, createdByFound, groups, sortedGroupHashes,
                   request>>

\* -------------------------------------------------------------------------
\* Specification: handlePanicParse on a request
\* -------------------------------------------------------------------------

\* a header and a call line followed by a line that is no file line
FailingTrace ==
    <<HeaderLine(<<>>, <<1>>, Running, LF),
      CallLine(<<>>, "main.main", <<>>, LF),
      TextLine(<<>>, "exit status 2", CRLF)>>

\* texts a form may carry: none, a failing trace alone and after junk, a
\* failing trace after a block, dumps of one and of two blocks, junk alone
PanicParseTexts ==
    {<<>>,
     FailingTrace,
     <<TextLine(<<>>, "panic: oops", LF)>> \o FailingTrace,
     BlockA \o FailingTrace,
     BlockA,
     <<TextLine(<<>>, "panic: oops", LF)>> \o BlockA \o BlockB,
     <<TextLine(<<>>, "panic: oops", LF)>>}

PanicParseRequests ==
    [method : {"GET", "POST"}, malformed : BOOLEAN, text : PanicParseTexts,
     hasFile : BOOLEAN, file : PanicParseTexts]

InitPanicParse ==
    /\ s = ZeroScanningState
    /\ wasLong = FALSE
    /\ out = <<>>
    /\ pc = "request"
    /\ ret = NoRet
    /\ ctx = NoCtx
    /\ stream = <<>>
    /\ atEOF = FALSE
    /\ input = <<>>
    /\ recognized = FALSE
    /\ parsedRoutines = <<>>
    /\ createdByFound = FALSE
    /\ groups = [h \in {} |-> <<>>]
    /\ sortedGroupHashes = <<>>
    /\ buckets = <<>>
    /\ similar = ""
    /\ request \in {r \in PanicParseRequests : ~r.hasFile => r.file = <<>>}
    /\ status = 0

NextPanicParse == PanicParseStart \/ ReadStream \/ PanicParseRespond

SpecPanicParse == InitPanicParse /\ [][NextPanicParse]_vars

\* -------------------------------------------------------------------------
\* Claims checked under Spec
\* -------------------------------------------------------------------------

\* C1: when the stream ends right after a call line with no file line (the
\* scanner is left in gotFunc at the end of the stream), parseDump returns a
\* non-nil error together with the whole routine list.
C1_EOFAfterCallIsError ==
    (pc = "returned" /\ atEOF /\ s.state = "gotFunc")
        => (ret.err # "" /\ ret.goroutines = s.goroutines)

\* C3: no input makes the parser panic.
C3_NeverPanics == pc # "panicked"

\* the routines scan may still write to: the last of the list and, in the
\* creator part of a race report, the one goroutineIndex names
UnderConstruction(sc, i) ==
    \/ i = Len(sc.goroutines)
    \/ /\ sc.state \in {"betweenRaceOperations", "betweenRaceGoroutines",
                        "gotRaceGoroutineHeader", "gotRaceGoroutineFunc",
                        "gotRaceGoroutineFile"}
       /\ i = sc.goroutineIndex

\* the step in which parseDump returns an error keeps the routines
CompletedKept ==
    /\ ret'.goroutines = s'.goroutines
    /\ Len(s'.goroutines) >= Len(s.goroutines)
    /\ \A i \in 1..Len(s.goroutines) :
          ~UnderConstruction(s, i) => s'.goroutines[i] = s.goroutines[i]

\* C8, as claimed: a non-nil error of parseDump comes with every routine
\* completed before the offending line, and ParseDump returns them in a
\* non-nil Context together with the error.
C8_ErrorComesWithContext ==
    [][(pc = "loop" /\ pc' = "returned" /\ ret'.err # "")
          => /\ CompletedKept
             /\ ~ctx'.isNil
             /\ ctx'.Goroutines = ret'.goroutines
             /\ ctx'.err = ret'.err]_vars

\* C8, amended: a non-nil error of parseDump comes with every routine
\* completed before the offending line; ParseDump returns the error, with
\* these routines in a non-nil Context when there is a routine, and with a
\* nil Context when the list is still empty.
C8_ErrorKeepsRoutines ==
    [][(pc = "loop" /\ pc' = "returned" /\ ret'.err # "")
          => /\ CompletedKept
             /\ ctx'.err = ret'.err
             /\ ctx'.isNil = (ret'.goroutines = <<>>)
             /\ ctx'.Goroutines = ret'.goroutines]_vars

\* a completed routine and the error of the block after it reach the caller
C8_Witness ==
    /\ pc = "returned"
    /\ ret.err # ""
    /\ Len(ret.goroutines) = 2
    /\ ret.goroutines[1].Stack.Calls # <<>>
    /\ ~ctx.isNil

\* C9: when scan has matched no routine header and no race operation
\* header, ParseDump returns a nil Context and a nil error.
C9_NoTraceNoError ==
    (pc = "returned" /\ ~recognized)
        => (ctx.isNil /\ ctx.err = "" /\ ret.err = "" /\ ret.goroutines = <<>>)

\* trace syntax without a header went to the sink and nothing was reported
C9_Witness ==
    /\ pc = "returned"
    /\ ~recognized
    /\ ctx.isNil
    /\ ctx.err = ""
    /\ \E i \in 1..Len(out) : out[i].kind \in {"call", "file", "created"}

\* what scan does with the unterminated line l when it treats it as it
\* treats the same line with a terminator: the same scanner afterwards, the
\* same error, and l itself as the chunk for the sink if there is one
LikeTerminated(l) ==
    LET r == scan(s, [l EXCEPT !.eol = LF])
    IN  /\ ~r.panicked
        /\ s' = r.s
        /\ out' = (IF r.out = <<>> THEN out ELSE Append(out, l))
        /\ ret'.err = r.err

\* the unterminated line l goes to the sink as it is and the scanner and
\* its routines stay as they are
LetThroughAsIs(l) ==
    /\ s' = s
    /\ out' = Append(out, l)
    /\ ret'.err = ""

\* parseDump scans the unterminated last line l of the stream
ScansLastLine(l) ==
    /\ l # EmptySlice
    /\ ~wasLong
    /\ Iterate(l, EOF)

\* C10, as claimed: an unterminated last line is scanned like a terminated
\* line when the state is normal, and let through as it is in any other
\* state.
C10_PartialScannedInNormal ==
    [][\A l \in FinalSlices :
          ScansLastLine(l)
              => IF s.state = "normal" THEN LikeTerminated(l)
                 ELSE LetThroughAsIs(l)]_vars

\* C10, amended: an unterminated last line is let through to the sink as it
\* is when the state is normal (an unterminated routine header starts no
\* routine), and is scanned like a terminated line in any other state.
C10_PartialLetThroughInNormal ==
    [][\A l \in FinalSlices :
          ScansLastLine(l)
              => IF s.state = "normal" THEN LetThroughAsIs(l)
                 ELSE LikeTerminated(l)]_vars

\* an unterminated routine header ended the stream and went to the sink
C10_Witness ==
    /\ pc = "returned"
    /\ atEOF
    /\ out # <<>>
    /\ out[Len(out)] = HeaderLine(<<>>, <<1>>, Running, NoEOL)
    /\ ret.goroutines = <<>>

\* the slices an arbitrary reader may deliver together with the error err
SlicesWith(err) ==
    IF err = ErrBufferFull THEN {LongFragment}
    ELSE IF err = EOF THEN FinalSlices
    ELSE TermLines

\* C11: every fragment of a line longer than the read buffer, the last one
\* included, is written to the sink as it is and is not scanned: the
\* scanner's state, prefix and routine list stay as they are, parseDump
\* stays in its loop, and only a full buffer keeps the line open.
C11_LongLinePassedThrough ==
    [][\A err \in {"", EOF, ErrBufferFull} : \A l \in SlicesWith(err) :
          (Iterate(l, err) /\ (err = ErrBufferFull \/ wasLong))
              => /\ s' = s
                 /\ out' = (IF HasNoBytes(l) THEN out ELSE Append(out, l))
                 /\ pc' = "loop"
                 /\ recognized' = recognized
                 /\ wasLong' = (err = ErrBufferFull)]_vars

\* after a routine header, a full buffer and then a call line as the rest of
\* the long line went to the sink and the routine got no Call
C11_Witness ==
    /\ pc = "loop"
    /\ ~wasLong
    /\ s.state = "gotRoutineHeader"
    /\ Len(out) = 2
    /\ out[1] = LongFragment
    /\ out[2].kind = "call"
    /\ s.goroutines[1].Stack.Calls = <<>>

\* the step scans the slice l, delivered with err, in the state st
ScansIn(l, err, st) == Iterate(l, err) /\ ~wasLong /\ s.state = st

\* the step ends without error: parseDump stays in its loop, or returns at
\* the end of the stream without error
NoErrorStep == pc' = "loop" \/ (pc' = "returned" /\ ret'.err = "")

\* the step ends the parse with the error e, the routines being rs
FatalStep(e, rs) ==
    /\ pc' = "returned"
    /\ ret'.err = e
    /\ ret'.goroutines = rs
    /\ out' = out

\* the routine under construction before and after the step
CurBefore == s.goroutines[Len(s.goroutines)]
CurAfter == s'.goroutines[Len(s'.goroutines)]

\* the step leaves every routine but the last as it is
OthersKept ==
    /\ Len(s'.goroutines) = Len(s.goroutines)
    /\ \A i \in 1..(Len(s.goroutines) - 1) : s'.goroutines[i] = s.goroutines[i]

\* the step appends one Call for the call line l to the stack of the routine
\* under construction
CallAppended(l) ==
    /\ OthersKept
    /\ Len(CurAfter.Stack.Calls) = Len(CurBefore.Stack.Calls) + 1
    /\ SubSeq(CurAfter.Stack.Calls, 1, Len(CurBefore.Stack.Calls))
         = CurBefore.Stack.Calls
    /\ CurAfter.Stack.Calls[Len(CurAfter.Stack.Calls)].Func = <<l.name>>
    /\ CurAfter.CreatedBy = CurBefore.CreatedBy

\* C24: in state gotRoutineHeader the stack-unavailable line is accepted and
\* leads to gotUnavail, a call line is accepted, its Call is appended to the
\* routine under construction and the state becomes gotFunc; every other
\* line, a blank line and the empty read at the end of the stream included,
\* ends the parse with a format error.
C24_AfterHeader ==
    [][\A err \in {"", EOF} : \A l \in SlicesWith(err) :
          ScansIn(l, err, "gotRoutineHeader")
              => IF l.kind = "unavail"
                 THEN /\ NoErrorStep
                      /\ s'.state = "gotUnavail"
                      /\ OthersKept
                      /\ Len(CurAfter.Stack.Calls) = 1
                      /\ CurAfter.Stack.Calls[1].SrcPath = <<"<unavailable>">>
                 ELSE IF l.kind = "call"
                 THEN /\ s'.state = "gotFunc"
                      /\ CallAppended(l)
                      /\ \/ NoErrorStep
                         \/ /\ \E i \in 1..Len(l.args) : l.args[i].t = "word"
                            /\ FatalStep("failed to parse int on line", s'.goroutines)
                 ELSE /\ FatalStep("expected a function after a goroutine header",
                                   s.goroutines)
                      /\ s'.goroutines = s.goroutines]_vars

\* the stream ended right after a routine header: the parse failed and
\* returned the routine without a Call
C24_Witness ==
    /\ pc = "returned"
    /\ atEOF
    /\ ret.err = "expected a function after a goroutine header"
    /\ s.state = "gotRoutineHeader"
    /\ Len(ret.goroutines) = 1
    /\ ret.goroutines[1].Stack.Calls = <<>>

\* the states of the scanner inside a block of the goroutine format
BlockStates ==
    {"gotRoutineHeader", "gotFunc", "gotCreated", "gotFileFunc",
     "gotFileCreated", "gotUnavail"}

\* the step sets path and line of the last Call of the stack from the file
\* line l and changes nothing else of the routines
FileOfLastCall(l) ==
    LET n == Len(CurBefore.Stack.Calls)
    IN  /\ OthersKept
        /\ CurAfter = [CurBefore EXCEPT !.Stack.Calls[n].SrcPath = <<l.path>>,
                                        !.Stack.Calls[n].Line = atou(l.num).n]

\* the step adds a Call to a stack that holds one already
SecondCallAccepted ==
    /\ Len(s'.goroutines) = Len(s.goroutines)
    /\ Len(s.goroutines) > 0
    /\ Len(CurBefore.Stack.Calls) >= 1
    /\ Len(CurAfter.Stack.Calls) > Len(CurBefore.Stack.Calls)

\* C25, as claimed: in state gotFunc a file line sets path and line of the
\* last Call and leads to gotFileFunc, and any other line ends the parse with
\* 'expected a file after a function'; a second call line is accepted from
\* gotFileFunc only.
C25_FileOrExpectedFile ==
    [][\A err \in {"", EOF} : \A l \in SlicesWith(err) :
          /\ ScansIn(l, err, "gotFunc")
               => IF MatchFile(Trimmed(l))
                  THEN NoErrorStep /\ s'.state = "gotFileFunc" /\ FileOfLastCall(l)
                  ELSE FatalStep("expected a file after a function", s.goroutines)
          /\ (Iterate(l, err) /\ ~wasLong /\ s.state \in BlockStates
                /\ SecondCallAccepted)
               => s.state = "gotFileFunc"]_vars

\* C25, amended: in state gotFunc a file line whose line number fits an int
\* sets path and line of the last Call and leads to gotFileFunc; a file line
\* whose line number does not fit ends the parse with 'failed to parse int on
\* line'; any other line ends it with 'expected a file after a function';
\* the routines stay as they are in both cases.  Inside a block a call line
\* is added to a stack that holds a Call from gotFileFunc only.
C25_FileOrFatal ==
    [][\A err \in {"", EOF} : \A l \in SlicesWith(err) :
          /\ ScansIn(l, err, "gotFunc")
               => IF MatchFile(Trimmed(l)) /\ atou(l.num).ok
                  THEN NoErrorStep /\ s'.state = "gotFileFunc" /\ FileOfLastCall(l)
                  ELSE IF MatchFile(Trimmed(l))
                  THEN /\ FatalStep("failed to parse int on line", s.goroutines)
                       /\ s'.goroutines = s.goroutines
                  ELSE /\ FatalStep("expected a file after a function", s.goroutines)
                       /\ s'.goroutines = s.goroutines
          /\ (Iterate(l, err) /\ ~wasLong /\ s.state \in BlockStates
                /\ SecondCallAccepted)
               => s.state = "gotFileFunc"]_vars

\* a routine got two Calls, each with its path and line
C25_Witness ==
    /\ pc = "loop"
    /\ s.state = "gotFileFunc"
    /\ Len(s.goroutines) = 1
    /\ Len(s.goroutines[1].Stack.Calls) = 2
    /\ \A i \in 1..2 : s.goroutines[1].Stack.Calls[i].Line = 26

\* a routine of a block of the goroutine format: it carries no race marker
IsBlockRoutine(g) == g.RaceAddr = <<>>

\* the creator of the routine g has its file
CreatorComplete(g) ==
    /\ g.CreatedBy.Calls # <<>>
    /\ g.CreatedBy.Calls[1].SrcPath # <<>>

\* the step ends the parse with an error and leaves the routines as they are
FatalFormatStep ==
    /\ pc' = "returned"
    /\ ret'.err # ""
    /\ ret'.goroutines = s.goroutines
    /\ s'.goroutines = s.goroutines
    /\ out' = out

\* C27: in state gotCreated a file line completes the creator Call and leads
\* to gotFileCreated, and every other line is a fatal format error; in
\* gotFileCreated a blank line ends the block; the creator chain of a
\* routine of a goroutine block holds no Call or one; and once the creator
\* has its file no line changes the routine.
C27_CreatorCompletedOnce ==
    /\ [][\A err \in {"", EOF} : \A l \in SlicesWith(err) :
            /\ ScansIn(l, err, "gotCreated")
                 => IF MatchFile(Trimmed(l)) /\ atou(l.num).ok
                    THEN /\ NoErrorStep
                         /\ s'.state = "gotFileCreated"
                         /\ OthersKept
                         /\ CurAfter =
                              [CurBefore EXCEPT
                                 !.CreatedBy.Calls[1].SrcPath = <<l.path>>,
                                 !.CreatedBy.Calls[1].Line = atou(l.num).n]
                    ELSE FatalFormatStep
            /\ (ScansIn(l, err, "gotFileCreated") /\ l.kind = "blank")
                 => /\ NoErrorStep
                    /\ s'.state = "betweenRoutine"
                    /\ s'.goroutines = s.goroutines
                    /\ out' = out]_vars
    /\ [](\A i \in 1..Len(s.goroutines) :
            IsBlockRoutine(s.goroutines[i])
                => Len(s.goroutines[i].CreatedBy.Calls) <= 1)
    /\ [][\A i \in 1..Len(s.goroutines) :
            (IsBlockRoutine(s.goroutines[i]) /\ CreatorComplete(s.goroutines[i]))
                => /\ Len(s'.goroutines) >= i
                   /\ s'.goroutines[i] = s.goroutines[i]]_vars

\* a block with a creator was ended by a blank line and a second routine was
\* started; the first routine holds its Call and its creator
C27_Witness ==
    /\ pc = "loop"
    /\ s.state = "gotRoutineHeader"
    /\ Len(s.goroutines) = 2
    /\ Len(s.goroutines[1].Stack.Calls) = 1
    /\ Len(s.goroutines[1].CreatedBy.Calls) = 1
    /\ s.goroutines[1].CreatedBy.Calls[1].Line = 26

\* C28: in state gotUnavail a blank line leads to betweenRoutine and a
\* created-by line to gotCreated; every other line is a fatal format error;
\* none of them adds a Call to the stack of the routine.
C28_AfterUnavail ==
    [][\A err \in {"", EOF} : \A l \in SlicesWith(err) :
          ScansIn(l, err, "gotUnavail")
            => /\ IF IsEmpty(Trimmed(l))
                  THEN /\ NoErrorStep
                       /\ s'.state = "betweenRoutine"
                       /\ s'.goroutines = s.goroutines
                  ELSE IF MatchCreated(Trimmed(l))
                  THEN /\ NoErrorStep
                       /\ s'.state = "gotCreated"
                       /\ OthersKept
                       /\ Len(CurAfter.CreatedBy.Calls) = 1
                  ELSE /\ FatalStep("expected empty line after unavailable stack",
                                    s.goroutines)
                       /\ s'.goroutines = s.goroutines
               /\ Len(s'.goroutines) = Len(s.goroutines)
               /\ CurAfter.Stack = CurBefore.Stack]_vars

\* a line that is neither blank nor a created-by line ended the parse after
\* the stack-unavailable line
C28_Witness ==
    /\ pc = "returned"
    /\ s.state = "gotUnavail"
    /\ ret.err = "expected empty line after unavailable stack"
    /\ Len(ret.goroutines) = 1
    /\ ret.goroutines[1].Stack.Calls[1].SrcPath = <<"<unavailable>">>

\* the routines built from race operation headers
RaceRoutines == {i \in 1..Len(s.goroutines) : ~IsBlockRoutine(s.goroutines[i])}

\* C29: the routines of a race report have pairwise different IDs, each
\* carrying the marker of its operation header; a 'Goroutine <id> (<state>)
\* created at:' header appends no routine and gives its state to the routine
\* listed with that ID, which the creator calls that follow are attached to.
C29_OneRoutinePerID ==
    /\ [](\A i \in RaceRoutines : \A j \in RaceRoutines :
            s.goroutines[i].ID = s.goroutines[j].ID => i = j)
    /\ [][\A err \in {"", EOF} : \A l \in SlicesWith(err) :
            (/\ Iterate(l, err) /\ ~wasLong
             /\ s.state \in {"betweenRaceOperations", "betweenRaceGoroutines"}
             /\ MatchRaceGoroutine(Trimmed(l))
             /\ NoErrorStep)
                => /\ Len(s'.goroutines) = Len(s.goroutines)
                   /\ s'.state = "gotRaceGoroutineHeader"
                   /\ s'.goroutineIndex \in RaceRoutines
                   /\ s.goroutines[s'.goroutineIndex].ID = atou(l.id).n
                   /\ s'.goroutines[s'.goroutineIndex].State = WordItem(l.name)]_vars

\* the closing banner of a race report is scanned in state st
BannerIn(l, err, st) ==
    ScansIn(l, err, st) /\ IsRaceHeaderFooter(Trimmed(l))

\* the step leaves the race report: state normal, no error, nothing written,
\* the routines and everything else of the scanner kept
ReportClosed ==
    /\ NoErrorStep
    /\ s' = [s EXCEPT !.state = "normal"]
    /\ out' = out

MovedPast(i) ==
    \/ i < Len(s.goroutines)
    \/ s.state \in {"normal", "betweenRoutine"}

\* the step leaves the routine at index i as it is
RoutineKept(i) ==
    /\ Len(s'.goroutines) >= i
    /\ s'.goroutines[i] = s.goroutines[i]

\* C31, as claimed: once the scanner has moved past the block of a routine no
\* line changes that routine.
C31_PastRoutinesFrozen ==
    [][\A i \in 1..Len(s.goroutines) : MovedPast(i) => RoutineKept(i)]_vars

\* C31, amended: once the scanner has moved past the block of a routine that
\* a goroutine header started no line changes that routine; a routine of a
\* race report is changed after later routines were appended, by the
\* created-at section of its ID, and then it is the one goroutineIndex names.
C31_PastBlockRoutinesFrozen ==
    [][\A i \in 1..Len(s.goroutines) :
          /\ (IsBlockRoutine(s.goroutines[i]) /\ MovedPast(i)) => RoutineKept(i)
          /\ (i < Len(s.goroutines) /\ ~RoutineKept(i))
                => /\ ~IsBlockRoutine(s.goroutines[i])
                   /\ s.state \in {"betweenRaceOperations", "betweenRaceGoroutines",
                                   "gotRaceGoroutineHeader", "gotRaceGoroutineFunc",
                                   "gotRaceGoroutineFile"}
                   /\ pc' # "panicked"
                   /\ s'.goroutineIndex = i
                   /\ Len(s'.goroutines) = Len(s.goroutines)]_vars

\* a second block is under construction after a first one that holds a Call
\* with its file
C31_Witness ==
    /\ pc = "loop"
    /\ s.state = "gotFunc"
    /\ Len(s.goroutines) = 2
    /\ IsBlockRoutine(s.goroutines[1])
    /\ Len(s.goroutines[1].Stack.Calls) = 1
    /\ s.goroutines[1].Stack.Calls[1].Line = 26
    /\ Len(s.goroutines[2].Stack.Calls) = 1

\* the states in which scan indexes s.goroutines with goroutineIndex
UsesIndex ==
    {"gotRaceGoroutineHeader", "gotRaceGoroutineFunc", "gotRaceGoroutineFile"}

\* C33: wherever scan uses the current routine the list is not empty; in
\* gotFunc and gotRaceOperationFunc the stack of the current routine holds a
\* Call; in gotCreated its creator chain holds exactly one; in the created-at
\* states of a race report goroutineIndex is an index of the list, and in
\* gotRaceGoroutineFunc the creator chain of that routine is not empty; so
\* the only panic of scan is the one it raises itself in gotRaceHeader2.
C33_IndexesInRange ==
    /\ s.state \in UsesCur => s.goroutines # <<>>
    /\ s.state \in {"gotFunc", "gotRaceOperationFunc"}
         => Len(s.goroutines[Len(s.goroutines)].Stack.Calls) >= 1
    /\ s.state = "gotCreated"
         => Len(s.goroutines[Len(s.goroutines)].CreatedBy.Calls) = 1
    /\ s.state \in UsesIndex => s.goroutineIndex \in 1..Len(s.goroutines)
    /\ s.state = "gotRaceGoroutineFunc" => ValidCreatorIndex(s)
    /\ pc = "panicked" => s.state = "gotRaceHeader2"

\* the function line of a created-at section was scanned for the first of
\* two race routines
C33_Witness ==
    /\ pc = "loop"
    /\ s.state = "gotRaceGoroutineFunc"
    /\ Len(s.goroutines) = 2
    /\ s.goroutineIndex = 1
    /\ Len(s.goroutines[1].CreatedBy.Calls) = 1

\* C34: the first routine of the list has the first-in-dump flag and no
\* other routine has it, in the scanner and in what parseDump returns.
C34_FirstFlagOnFirstOnly ==
    /\ \A i \in 1..Len(s.goroutines) : s.goroutines[i].First <=> i = 1
    /\ pc = "returned"
         => \A i \in 1..Len(ret.goroutines) : ret.goroutines[i].First <=> i = 1

\* a race report of one routine was closed and a goroutine block follows it
C34_Witness ==
    /\ Len(s.goroutines) = 2
    /\ ~IsBlockRoutine(s.goroutines[1])
    /\ IsBlockRoutine(s.goroutines[2])
    /\ s.goroutines[1].First
    /\ ~s.goroutines[2].First

\* C35: the step in which scan returns an error ends parseDump with that
\* error, with no routine appended and nothing written to the sink, and
\* parseDump takes no step after it has returned.
C35_ErrorAborts ==
    /\ [][\A err \in {"", EOF} : \A l \in SlicesWith(err) :
            (/\ Iterate(l, err) /\ ~wasLong
             /\ ~scan(s, l).panicked
             /\ scan(s, l).err # "")
                => /\ pc' = "returned"
                   /\ ret'.err = scan(s, l).err
                   /\ ret'.goroutines = s'.goroutines
                   /\ Len(s'.goroutines) = Len(s.goroutines)
                   /\ out' = out]_vars
    /\ [][pc = "loop"]_vars

\* parseDump returned a format error before the end of the stream, after a
\* line of junk was written and a routine was appended
C35_Witness ==
    /\ pc = "returned"
    /\ ~atEOF
    /\ ret.err = "expected a file after a function"
    /\ Len(ret.goroutines) = 1
    /\ Len(out) = 1

\* the step writes the line l to the sink and sets state normal, without
\* error and with the routines kept
FellBackWith(l) ==
    /\ NoErrorStep
    /\ s'.state = "normal"
    /\ s'.goroutines = s.goroutines
    /\ out' = Append(out, l)

\* the step takes the line without error, writes nothing and sets state st
ConsumedInto(st) ==
    /\ NoErrorStep
    /\ s'.state = st
    /\ s'.goroutines = s.goroutines
    /\ out' = out

\* the states a race report is entered through
RaceEntry == {"normal", "betweenRoutine", "gotRaceHeader1", "gotRaceHeader2"}

C39_ParseErrorIs400 ==
    (pc = "responded" /\ ctx.err # "")
        => /\ status = StatusBadRequest
           /\ out # <<>>
           /\ out[Len(out)] = [kind |-> "error", text |-> ctx.err]
           /\ buckets = <<>>
           /\ \A i \in 1..Len(out) : out[i].kind # "buckets"

\* -------------------------------------------------------------------------
\* Claims checked under SpecFinite
\* -------------------------------------------------------------------------

\* C36: on a finite stream parseDump returns; every iteration of its loop
\* takes the next slice off the stream, scans it or passes it through, and
\* the loop is left at the end of the stream or at the first error.
C36_ParseDumpReturns ==
    /\ <>(pc = "returned")
    /\ [][/\ pc = "loop"
          /\ stream # <<>> => Len(stream') < Len(stream)
          /\ pc' = "returned" => (atEOF' \/ ret'.err # "")]_vars

\* -------------------------------------------------------------------------
\* Claims checked under SpecGiven
\* -------------------------------------------------------------------------

IsJunkLine(line) == line.kind \in {"text", "banner"}

\* C2: for a dump of valid blocks with junk lines before, between and after
\* them, every junk line reaches the sink as it is and in order, no error is
\* returned, and the routines are those of the blocks.
C2_JunkStreamed ==
    (pc = "returned" /\ input \in JunkDumps)
        => /\ out = SelectSeq(input, IsJunkLine)
           /\ ret.err = ""
           /\ Len(ret.goroutines)
                = Len(SelectSeq(input, LAMBDA l : l.kind = "header"))

\* C4: a header, a call line and an indented file line parse, without error,
\* to one routine whose only Call has the function of the call line and the
\* path and line number of the file line.
C4_SingleRoutine ==
    (pc = "returned" /\ input \in ValidSingleInputs)
        => /\ ret.err = ""
           /\ Len(ret.goroutines) = 1
           /\ Len(ret.goroutines[1].Stack.Calls) = 1
           /\ ret.goroutines[1].Stack.Calls[1].Func = <<input[2].name>>
           /\ ret.goroutines[1].Stack.Calls[1].SrcPath = <<input[3].path>>
           /\ ret.goroutines[1].Stack.Calls[1].Line = LineNumberOf(input[3])
           /\ ~ctx.isNil
           /\ ctx.Goroutines = ret.goroutines
           /\ ctx.err = ""

\* an indented block whose file line is indented by spaces was parsed
C4_Witness ==
    /\ pc = "returned"
    /\ input \in ValidSingleInputs
    /\ input[1].ws = <<SP>>
    /\ input[3].ws = <<SP, SP, SP>>
    /\ input[3].eol = NoEOL
    /\ Len(ret.goroutines) = 1
    /\ ret.goroutines[1].Stack.Calls[1].Line = 26

\* the creator Call of the only routine holds the function of the created-by
\* line and the path and line number of the file line after it
CreatorPopulated ==
    /\ ret.err = ""
    /\ Len(ret.goroutines) = 1
    /\ Len(ret.goroutines[1].CreatedBy.Calls) = 1
    /\ ret.goroutines[1].CreatedBy.Calls[1].Func = <<input[3].name>>
    /\ ret.goroutines[1].CreatedBy.Calls[1].SrcPath = <<input[4].path>>
    /\ ret.goroutines[1].CreatedBy.Calls[1].Line = LineNumberOf(input[4])

\* C5, as claimed: an unavailable block parses to one routine whose call
\* stack is empty and whose creator Call is populated.
C5_UnavailStackEmpty ==
    (pc = "returned" /\ input \in UnavailInputs)
        => /\ CreatorPopulated
           /\ ret.goroutines[1].Stack.Calls = <<>>

\* C5, amended: an unavailable block parses to one routine whose call stack
\* holds one synthetic Call, with the path "<unavailable>" and no function,
\* argument or line, and whose creator Call is populated.
C5_UnavailStackSynthetic ==
    (pc = "returned" /\ input \in UnavailInputs)
        => /\ CreatorPopulated
           /\ ret.goroutines[1].Stack.Calls
                = <<[ZeroCall EXCEPT !.SrcPath = <<"<unavailable>">>]>>

\* an unavailable block was parsed to its end
C5_Witness ==
    /\ pc = "returned"
    /\ input \in UnavailInputs
    /\ s.state = "gotFileCreated"
    /\ Len(ret.goroutines) = 1
    /\ ret.goroutines[1].CreatedBy.Calls[1].Line = 7

\* the pieces of the argument list of the call line of a dump of ArgDumps,
\* as bytes.Split yields them
PiecesOf(dump) ==
    IF dump[2].args = <<>> THEN <<EmptyPiece>> ELSE dump[2].args

\* the pieces before the first empty piece
RECURSIVE BeforeEmpty(_)
BeforeEmpty(pieces) ==
    IF pieces = <<>> \/ Head(pieces).t = "empty" THEN <<>>
    ELSE <<Head(pieces)>> \o BeforeEmpty(Tail(pieces))

\* the pieces before the first piece that is no number and no "..."
RECURSIVE BeforeWord(_)
BeforeWord(pieces) ==
    IF pieces = <<>> \/ Head(pieces).t = "word" THEN <<>>
    ELSE <<Head(pieces)>> \o BeforeWord(Tail(pieces))

IsNumber(piece) == piece.t = "hex"

\* the numbers among pieces, as values
RECURSIVE NumbersOf(_)
NumbersOf(pieces) ==
    IF pieces = <<>> THEN <<>>
    ELSE (IF IsNumber(Head(pieces)) THEN <<StripZeros(Head(pieces).ds)>> ELSE <<>>)
            \o NumbersOf(Tail(pieces))

Has(pieces, kind) == \E i \in 1..Len(pieces) : pieces[i].t = kind

\* the arguments of the Call parsed from the call line, and their values
ParsedArgs == ret.goroutines[1].Stack.Calls[1].Args
ParsedValues == [i \in 1..Len(ParsedArgs.Values) |-> ParsedArgs.Values[i].Value]

C15_NoPieceDropped ==
    (pc = "returned" /\ input \in ArgDumps)
        => LET pieces == PiecesOf(input)
           IN  IF Has(pieces, "word") THEN ret.err # ""
               ELSE ret.err = "" => ParsedValues = NumbersOf(pieces)

\* C16: a file line whose path and line number are followed by text other
\* than the offset and fp= sp= pc= annotations is accepted as the file line
\* of the call before it: the path and the line number are populated, the
\* text is discarded, and no error is returned.
C16_NoisyFileLineAccepted ==
    (pc = "returned" /\ input \in NoisyFileDumps)
        => /\ ret.err = ""
           /\ Len(ret.goroutines) = 1
           /\ Len(ret.goroutines[1].Stack.Calls) = 1
           /\ ret.goroutines[1].Stack.Calls[1].SrcPath = <<input[3].path>>
           /\ ret.goroutines[1].Stack.Calls[1].Line = LineNumberOf(input[3])

\* -------------------------------------------------------------------------
\* Claims checked under SpecCombine
\* -------------------------------------------------------------------------

\* the routine headers of a dump
HeadersOf(dump) == SelectSeq(dump, LAMBDA l : l.kind = "header")

\* the sizes the chunks of groups show, summed from the i-th chunk on
RECURSIVE SumCounts(_, _)
SumCounts(chunks, i) ==
    IF i > Len(chunks) THEN 0 ELSE chunks[i].count + SumCounts(chunks, i + 1)

\* the routines of rs that hash to h, in their order
WithHash(rs, h) == SelectSeq(rs, LAMBDA r : hash(r) = h)

\* C17: aggregation partitions the routine list: every parsed routine is in
\* the group of its hash and in no other, once; no group is empty; every
\* group is written once; and the sizes written sum to the total written in
\* "Found N total goroutines", the number of routines parsed.
C17_GroupsPartition ==
    pc = "written"
        => LET rs == ret.routines
           IN  /\ Len(rs) = Len(HeadersOf(input))
               /\ DOMAIN groups = {hash(rs[i]) : i \in 1..Len(rs)}
               /\ \A h \in DOMAIN groups :
                    groups[h] # <<>> /\ groups[h] = WithHash(rs, h)
               /\ Len(sortedGroupHashes) = Cardinality(DOMAIN groups)
               /\ {sortedGroupHashes[i] : i \in 1..Len(sortedGroupHashes)}
                    = DOMAIN groups
               /\ Len(out) = 1 + Len(sortedGroupHashes)
               /\ out[1].total = Len(rs)
               /\ \A i \in 1..Len(sortedGroupHashes) :
                    out[i + 1].count = Len(groups[sortedGroupHashes[i]])
               /\ SumCounts(out, 2) = out[1].total

\* four routines were written as a group of three and a group of one
C17_Witness ==
    /\ pc = "written"
    /\ Len(ret.routines) = 4
    /\ Cardinality(DOMAIN groups) = 2
    /\ \E h \in DOMAIN groups : Len(groups[h]) = 3
    /\ out[1].total = 4

FirstSeen(h) ==
    CHOOSE i \in 1..Len(ret.routines) :
        /\ hash(ret.routines[i]) = h
        /\ \A j \in 1..(i - 1) : hash(ret.routines[j]) # h

\* C19: groups of equal size are written in the order in which their first
\* routines stand in the dump.
C19_TiesInFirstSeenOrder ==
    pc = "written"
        => \A i, j \in 1..Len(sortedGroupHashes) :
             (i < j /\ Len(groups[sortedGroupHashes[i]])
                         = Len(groups[sortedGroupHashes[j]]))
                => FirstSeen(sortedGroupHashes[i]) < FirstSeen(sortedGroupHashes[j])

\* dumps that hold one trace only, one to MaxRoutines times
SameTraceDumps ==
    {Flatten(bs) : bs \in UNION {[1..n -> SameTraceBlocks] : n \in 1..MaxRoutines}}

\* C20: a dump that holds the same trace N times parses to N routines and is
\* written as one group of size N, also when blocks carry the same number.
C20_SameTraceOneGroup ==
    /\ (pc \in {"returned", "written"} /\ input \in SameTraceDumps)
          => ret.err = "" /\ Len(ret.routines) = Len(HeadersOf(input))
    /\ (pc = "written" /\ input \in SameTraceDumps)
          => /\ Cardinality(DOMAIN groups) = 1
             /\ Len(out) = 2
             /\ out[1].total = Len(HeadersOf(input))
             /\ out[2].count = Len(HeadersOf(input))

\* three blocks of one trace, two of them with the same number, were
\* written as one group of three
C20_Witness ==
    /\ pc = "written"
    /\ input \in SameTraceDumps
    /\ Len(HeadersOf(input)) = 3
    /\ input[1].id = input[5].id
    /\ input[1].id # input[9].id
    /\ out[2].count = 3

\* -------------------------------------------------------------------------
\* Claims checked under SpecPair
\* -------------------------------------------------------------------------

\* the positions at which the argument lists of the two blocks differ
DifferAt(dump) == {i \in 1..Len(dump[2].args) : dump[2].args[i] # dump[6].args[i]}

\* the two blocks are identical except for the value of one argument, a
\* pointer-shaped value in both
OnePointerDiffers ==
    /\ Cardinality(DifferAt(input)) = 1
    /\ \A i \in DifferAt(input) :
         input[2].args[i] \in {PtrArg, PtrArg2} /\ input[6].args[i] \in {PtrArg, PtrArg2}

EmptyUpload ==
    /\ request.method = "POST"
    /\ ~request.malformed
    /\ request.text = <<>>
    /\ request.file = <<>>

\* C22: a POST to /upload whose form has neither a non-empty text field nor
\* a non-empty file is answered with status 400 and 'must provide content';
\* parse and writeAggregated are not run for it.
C22_EmptyUploadRejected ==
    /\ [](EmptyUpload => pc \in {"request", "responded"})
    /\ []((EmptyUpload /\ pc = "responded")
            => /\ status = StatusBadRequest
               /\ out = <<[kind |-> "error", text |-> "must provide content"]>>
               /\ ret = NoRet
               /\ parsedRoutines = <<>>
               /\ DOMAIN groups = {}
               /\ sortedGroupHashes = <<>>)

\* a form with an empty file and no text was answered with status 400
C22_Witness ==
    /\ pc = "responded"
    /\ EmptyUpload
    /\ request.hasFile
    /\ status = StatusBadRequest

\* a POST without a text and with a file that holds a dump parse accepts
FileUpload ==
    /\ request.method = "POST"
    /\ ~request.malformed
    /\ request.text = <<>>
    /\ request.hasFile
    /\ request.file # <<>>
    /\ request.file # <<CallLine(<<>>, "main.main", <<>>, LF)>>

\* a frame as (function, file, line)
FrameKey(f) == <<Text(f.function), Text(f.file), f.line>>

\* the stacks of r1 and r2 are equal as sequences of (function, file, line)
\* and so are their created frames
SameTrace(r1, r2) ==
    /\ Len(r1.stack) = Len(r2.stack)
    /\ \A k \in 1..Len(r1.stack) : FrameKey(r1.stack[k]) = FrameKey(r2.stack[k])
    /\ FrameKey(r1.created) = FrameKey(r2.created)

\* r is one of the routines of the group
InGroup(r, group) == \E k \in 1..Len(group) : group[k] = r

\* writeAggregated put r1 and r2 into one group
SameGroup(r1, r2) ==
    \E h \in DOMAIN groups : InGroup(r1, groups[h]) /\ InGroup(r2, groups[h])

\* the first routine of the dump that is in the group
FirstInGroup(group) ==
    ret.routines[CHOOSE i \in 1..Len(ret.routines) :
                    /\ InGroup(ret.routines[i], group)
                    /\ \A j \in 1..(i - 1) : ~InGroup(ret.routines[j], group)]

\* routines of equal stacks and created frames are in one group, whatever
\* their labels, states and arguments
C40_EqualTracesGrouped ==
    pc = "written"
        => \A i, j \in 1..Len(ret.routines) :
             SameTrace(ret.routines[i], ret.routines[j])
                => SameGroup(ret.routines[i], ret.routines[j])

\* the label and the state written for a group are those of its first
\* routine in the dump
C40_FirstRoutineShown ==
    pc = "written"
        => \A i \in 1..Len(sortedGroupHashes) :
             LET first == FirstInGroup(groups[sortedGroupHashes[i]])
             IN  /\ out[i + 1].label = first.label
                 /\ out[i + 1].state = first.state

\* C40: writeAggregated puts two routines into the same group exactly when
\* their stacks are equal as sequences of (function, file, line) and their
\* created frames are equal as (function, file, line), whatever their
\* labels, states and arguments; the label and the state written for a
\* group are those of its first routine in the dump.
C40_GroupedByTrace ==
    /\ pc = "written"
          => \A i, j \in 1..Len(ret.routines) :
               SameGroup(ret.routines[i], ret.routines[j])
                  <=> SameTrace(ret.routines[i], ret.routines[j])
    /\ C40_FirstRoutineShown

\* the first routine of the file in the group written as the i-th chunk
FirstOfChunk(i) == ret.routines[FirstSeen(sortedGroupHashes[i - 1])]

\* C23: a POST to /upload with no text field and a file that holds a dump
\* parse accepts is answered with status 200 and the aggregated report; the
\* header of each group shows the state of the first routine of the group.
C23_FileUploadAggregated ==
    (pc = "responded" /\ FileUpload)
        => /\ status = StatusOK
           /\ input = request.file
           /\ ret.err = ""
           /\ Len(ret.routines) = Len(HeadersOf(request.file))
           /\ out[1] = [kind |-> "found", total |-> Len(ret.routines)]
           /\ Len(out) = 1 + Cardinality({hash(ret.routines[i]) : i \in 1..Len(ret.routines)})
           /\ Len(sortedGroupHashes) = Len(out) - 1
           /\ \A i \in 2..Len(out) :
                /\ out[i].kind = "group"
                /\ out[i].state = FirstOfChunk(i).state
                /\ out[i].label = FirstOfChunk(i).label
                /\ out[i].stack = FirstOfChunk(i).stack

\* the file held three routines, the first and the last of one trace; the
\* group of two shows the state of the first, which is running
C23_Witness ==
    /\ pc = "responded"
    /\ FileUpload
    /\ status = StatusOK
    /\ Len(ret.routines) = 3
    /\ out[2].count = 2
    /\ out[2].state = Running
    /\ ret.routines[3].state = Sleeping

\* -------------------------------------------------------------------------
\* Claims checked under SpecIndent
\* -------------------------------------------------------------------------

\* the slices a reader of an indented dump may deliver together with err
IndentedSlicesWith(err) ==
    IF err = EOF THEN IndentedFinalSlices ELSE IndentedLines

\* C12: when scan accepts a routine header in state normal or
\* betweenRoutine, the prefix it records is the whole leading whitespace of
\* the header line, for the first block and for every later block.
C12_PrefixIsHeaderIndent ==
    [][\A l \in IndentedLines :
          (/\ Iterate(l, "")
           /\ s.state \in {"normal", "betweenRoutine"}
           /\ s'.state = "gotRoutineHeader")
              => s'.prefix = l.ws]_vars

\* the line l has bytes before its terminator and does not start with the
\* recorded prefix, which is not empty
OffPrefix(l) ==
    /\ Len(s.prefix) # 0
    /\ ~IsEmpty(Trimmed(l))
    /\ ~HasPrefix(l.ws, s.prefix)

\* what the claim says of a line that is off the prefix
IndentationError ==
    /\ pc' = "returned"
    /\ ret'.err = "inconsistent indentation"
    /\ s'.state = "normal"
    /\ s'.prefix = <<>>
    /\ out' = out
    /\ s'.goroutines = s.goroutines
    /\ ret'.goroutines = s.goroutines

IndentedScansIn(l, err, st) == Iterate(l, err) /\ ~wasLong /\ s.state = st

\* l is no created-by line, no frame-elision marker, no call line and not
\* blank
Leftover(l) == l.kind \notin {"created", "elided", "call", "blank"}

\* the step hands the line l to the sink as it is and falls back to normal
FallsBack(l) ==
    /\ pc' = "loop" \/ (pc' = "returned" /\ ret'.err = "")
    /\ s'.state = "normal"
    /\ s'.prefix = <<>>
    /\ out' = Append(out, l)
    /\ s'.goroutines = s.goroutines

\* C26, as claimed: in state gotFileFunc a line that is no created-by line,
\* no frame-elision marker, no call line and not blank never gives an error:
\* the state becomes normal, the prefix is cleared, the line goes to the sink
\* as it is and the routines are kept.
C26_LeftoverFallsBack ==
    [][\A err \in {"", EOF} : \A l \in IndentedSlicesWith(err) :
          (IndentedScansIn(l, err, "gotFileFunc") /\ Leftover(l))
              => FallsBack(l)]_vars

\* C26, amended: the same of a line that starts with the prefix of the
\* block; a line that does not is an indentation error and does not reach
\* the sink.
C26_LeftoverOnPrefixFallsBack ==
    [][\A err \in {"", EOF} : \A l \in IndentedSlicesWith(err) :
          (IndentedScansIn(l, err, "gotFileFunc") /\ Leftover(l))
              => IF OffPrefix(l) THEN IndentationError ELSE FallsBack(l)]_vars

\* right after the file line of an indented block a routine header went to
\* the sink with its indentation, and the routine of the block was kept
C26_Witness ==
    /\ pc = "loop"
    /\ s.state = "normal"
    /\ s.prefix = <<>>
    /\ out = <<HeaderLine(<<SP>>, <<1>>, Running, LF)>>
    /\ Len(s.goroutines) = 1
    /\ Len(s.goroutines[1].Stack.Calls) = 1
    /\ s.goroutines[1].Stack.Calls[1].Line = 26

\* C32: in state normal the recorded prefix is empty, and a line scanned in
\* state normal never is an indentation error.
C32_NormalHasNoPrefix ==
    /\ [](s.state = "normal" => s.prefix = <<>>)
    /\ [][\A err \in {"", EOF} : \A l \in IndentedSlicesWith(err) :
            IndentedScansIn(l, err, "normal")
                => ret'.err # "inconsistent indentation"]_vars

\* -------------------------------------------------------------------------
\* Claims checked under SpecParse
\* -------------------------------------------------------------------------

\* the frame parse makes of the created-by line c and the file line f
CreatedFrame(c, f) == frame(<<c.name>>, <<>>, <<f.path>>, LineNumberOf(f))

\* C6: a header followed by k >= 1 (call line, file line) pairs and,
\* optionally, a created-by line and its file line parses, without error, to
\* one routine with the label and the state of the header, the k frames in
\* input order, each with the function and the args of its call line and
\* the file and line of the file line after it, and the created frame of the
\* created-by line and its file line, the zero frame when there is none.
C6_FramesInOrder ==
    (pc = "returned" /\ input \in FrameBlocks)
        => LET k == Len(SelectSeq(input, LAMBDA l : l.kind = "call"))
           IN  /\ ret.err = ""
               /\ ~ret.isNil
               /\ Len(ret.routines) = 1
               /\ ret.routines[1].label = input[1].id
               /\ ret.routines[1].state = input[1].items
               /\ Len(ret.routines[1].stack) = k
               /\ \A i \in 1..k :
                    LET f == ret.routines[1].stack[i]
                    IN  /\ f.function[Len(f.function)] = input[2 * i].name
                        /\ f.args = input[2 * i].args
                        /\ f.file = <<input[2 * i + 1].path>>
                        /\ f.line = LineNumberOf(input[2 * i + 1])
               /\ ret.routines[1].created
                    = IF Len(input) = 2 * k + 1 THEN ZeroFrame
                      ELSE CreatedFrame(input[2 * k + 2], input[2 * k + 3])

\* two frames and a creator were parsed from lines with text before them
C6_Witness ==
    /\ pc = "returned"
    /\ input \in FrameBlocks
    /\ Len(input) = 7
    /\ input[1].lead = "extra: "
    /\ Len(ret.routines) = 1
    /\ Len(ret.routines[1].stack) = 2
    /\ ret.routines[1].stack[1].line # ret.routines[1].stack[2].line
    /\ ret.routines[1].stack[1].args # ret.routines[1].stack[2].args
    /\ ret.routines[1].created.line = 7

\* the line t matches none of the patterns of parse
Unmatched(t) ==
    /\ ~startRuntimeStack(t)
    /\ ~goroutineStart(t)
    /\ ~callLine(t)
    /\ ~createdByLine(t)
    /\ ~fileLine(t)

\* C7: a line that matches no pattern of parse is skipped without error and
\* changes neither the routine list nor the pending created-by flag; a
\* header, the stack-unavailable line, a created-by line and a file line
\* parse to one routine with a nil stack and a created frame with the
\* function, the file and the line.
C7_UnmatchedSkipped ==
    /\ [][(pc = "loop" /\ stream # <<>> /\ stream' = Tail(stream)
             /\ Unmatched(Head(stream)))
            => /\ pc' = "loop"
               /\ parsedRoutines' = parsedRoutines
               /\ createdByFound' = createdByFound]_vars
    /\ []((pc = "returned" /\ input \in UnavailBlocks)
            => LET c == CHOOSE i \in 1..Len(input) : input[i].kind = "created"
               IN  /\ ret.err = ""
                   /\ Len(ret.routines) = 1
                   /\ ret.routines[1].stack = <<>>
                   /\ ret.routines[1].created
                        = CreatedFrame(input[c], input[Len(input)]))

\* an unmatched line was skipped while the created-by flag was pending
C7_Witness ==
    /\ pc = "returned"
    /\ input \in UnavailBlocks
    /\ Len(input) = 6
    /\ input[5].kind = "text"
    /\ input[1].lead = "extra: "
    /\ Len(ret.routines) = 1
    /\ ret.routines[1].stack = <<>>
    /\ ret.routines[1].created.line = 26

====
